---- MODULE Spec2Model ----
(***************************************************************************)
(* hippocampus.md: the scoring / decay / tier-assembly pipeline of         *)
(* extension/hippocampus.ts (loadConfig, classifyMessage, scoreMessages,   *)
(* calculateRetention, buildSparseIndexLine, buildHippocampusSummary, the  *)
(* session_before_compact handler) and getRetentionAction of src/index.ts. *)
(*                                                                         *)
(* Representation.                                                         *)
(*  - A character is a one-character TLA+ string; the few non-ASCII        *)
(*    characters the program uses are named ("ELLIPSIS", "ARROW",          *)
(*    "BULLET", "cyr_er", ...).  Each such name stands for one UTF-16      *)
(*    code unit.                                                           *)
(*  - A JavaScript string held in a message is a record                    *)
(*    [head, pad]: the characters of head followed by pad copies of        *)
(*    PadChar.  It lets a 120,004-character tool output be a state         *)
(*    variable.  Every string derived from it by slice() is a plain        *)
(*    sequence of characters.                                              *)
(*  - Importance is an integer number of hundredths (0.90 is 90).          *)
(*    Retention is an integer number of 1/(100*SCALE): importance times    *)
(*    ExpNeg, where ExpNeg(h) is e^(-h/100) in units of 1/SCALE.           *)
(*    Sums and differences of hundredths are exact here; the rounding of   *)
(*    IEEE doubles (0.8 + 0.15 = 0.9500000000000001) is not modelled.      *)
(*  - The text buildHippocampusSummary returns is parts.join("\n"); the    *)
(*    model keeps the sequence of parts.  Pointer lines, compressed lines  *)
(*    and kept blocks are character sequences; the title, the headings     *)
(*    and the three comments are records carrying their numbers.  The      *)
(*    dash of two headings is written "-".                                 *)
(*  - NaN, the value calculateRetention returns when the configuration has  *)
(*    no decay rate for the type, is a value apart from every number: the  *)
(*    comparisons of the builder are false on it.                          *)
(*  - A call that throws is a step to pc = "threw".                        *)
(***************************************************************************)
EXTENDS Integers, Sequences, FiniteSets, TLC

VARIABLES
    pc,          \* which operation acts next
    msg,         \* classifyMessage: the message handed to it
    ctypes,      \* classifyMessage: the types returned by the calls made on msg so far
    probe,       \* calculateRetention: its arguments importance, age and type
    retained,    \* calculateRetention: the value it returned (NotYet before the call)
    config,      \* the HippocampusConfig in use
    messages,    \* the message list handed to scoreMessages and buildHippocampusSummary
    scored,      \* the ScoredEntry list scoreMessages returned, handed to buildHippocampusSummary
    previousSummary,  \* buildHippocampusSummary: the optional previous summary
    cursor,      \* buildHippocampusSummary: number of scored entries its loop has handled
    sparse,      \* buildHippocampusSummary: admitted pointer lines
    compressed,  \* buildHippocampusSummary: compressed lines
    kept,        \* buildHippocampusSummary: full-retention blocks
    tokens,      \* buildHippocampusSummary: sparseTokens, compressedTokens, keptTokens
    droppedCount,     \* buildHippocampusSummary: sparse candidates not admitted
    digest,      \* buildHippocampusSummary: the parts of the returned text, in order
    configFile,  \* loadConfig: what hippocampus.config.json is in the workspace
    preparation, \* the handler: tokensBefore and firstKeptEntryId of the event
    stats,       \* the handler: its stats object
    notified,    \* the handler: the ctx.ui.notify calls of the invocation, in order
    result,      \* the handler: what the invocation returned (Pending before it returns)
    calls,       \* the handler: number of invocations so far
    recommended  \* getRetentionAction: the action it returned (NotYet before the call)

classifyVars == <<msg, ctypes>>
decayVars == <<probe, retained>>
scoreVars == <<messages, scored>>
buildVars == <<previousSummary, cursor, sparse, compressed, kept, tokens, droppedCount, digest>>
loadVars == <<configFile>>
hookVars == <<preparation, stats, notified, result, calls>>
tierVars == <<recommended>>
vars == <<pc, msg, ctypes, probe, retained, config, messages, scored,
          previousSummary, cursor, sparse, compressed, kept, tokens, droppedCount, digest,
          configFile, preparation, stats, notified, result, calls, recommended>>

NotYet == -1

(***************************************************************************)
(* Strings                                                                 *)
(***************************************************************************)
Min(a, b) == IF a <= b THEN a ELSE b
Max(a, b) == IF a >= b THEN a ELSE b

\* Math.ceil(n / d) for n >= 0, d > 0
CeilDiv(n, d) == (n + d - 1) \div d

PadChar == "."

LowerLetters ==
    <<"a","b","c","d","e","f","g","h","i","j","k","l","m","n","o","p","q","r","s","t","u","v","w","x","y","z","cyr_pe">>
UpperLetters ==
    <<"A","B","C","D","E","F","G","H","I","J","K","L","M","N","O","P","Q","R","S","T","U","V","W","X","Y","Z","CYR_PE">>

\* String.prototype.toLowerCase / toUpperCase on one character
LowerChar(c) ==
    IF \E i \in 1..Len(UpperLetters) : UpperLetters[i] = c
    THEN LowerLetters[CHOOSE i \in 1..Len(UpperLetters) : UpperLetters[i] = c]
    ELSE c
UpperChar(c) ==
    IF \E i \in 1..Len(LowerLetters) : LowerLetters[i] = c
    THEN UpperLetters[CHOOSE i \in 1..Len(LowerLetters) : LowerLetters[i] = c]
    ELSE c

RECURSIVE Digits(_)
\* the decimal rendering of n >= 0
Digits(n) ==
    LET d == <<"0","1","2","3","4","5","6","7","8","9">>[(n % 10) + 1]
    IN  IF n < 10 THEN <<d>> ELSE Append(Digits(n \div 10), d)

\* a string of the program: head followed by pad copies of PadChar
Str(h, p) == [head |-> h, pad |-> p]
Plain(h) == Str(h, 0)

StrLen(s) == Len(s.head) + s.pad

\* s.slice(0, n), as a plain character sequence
StrSlice(s, n) ==
    IF n <= Len(s.head) THEN SubSeq(s.head, 1, n)
    ELSE s.head \o [i \in 1..Min(s.pad, n - Len(s.head)) |-> PadChar]

StrLower(s) == Str([i \in 1..Len(s.head) |-> LowerChar(s.head[i])], s.pad)

\* hay.includes(needle) on plain character sequences
SeqIncludes(hay, needle) ==
    \E i \in 0..(Len(hay) - Len(needle)) : SubSeq(hay, i + 1, i + Len(needle)) = needle

\* s.includes(needle): an occurrence of needle lies in head followed by at most
\* Len(needle) pad characters, or needle occurs in no prefix of s at all
StrIncludes(s, needle) ==
    SeqIncludes(StrSlice(s, Len(s.head) + Min(s.pad, Len(needle))), needle)

\* an optional field of a message or block: <<>> when absent, <<v>> when present
None == <<>>
Some(v) == <<v>>
IsSome(o) == Len(o) = 1
\* JavaScript truthiness of an optional string field
Truthy(o) == IsSome(o) /\ Len(o[1]) > 0

(***************************************************************************)
(* Messages                                                                *)
(***************************************************************************)
\* ContentBlock
Block(type, text, name, toolUseId) ==
    [type |-> type, text |-> text, name |-> name, tool_use_id |-> toolUseId]

TextBlock(t) == Block(Some(<<"t", "e", "x", "t">>), Some(t), None, None)
ToolUseBlock(n) == Block(Some(<<"t", "o", "o", "l", "_", "u", "s", "e">>), None, Some(n), None)
ToolResultBlock(id) == Block(Some(<<"t", "o", "o", "l", "_", "r", "e", "s", "u", "l", "t">>), None, None, Some(id))
OtherBlock == Block(Some(<<"o", "t", "h", "e", "r">>), None, None, None)

\* msg.content: a string, an array of blocks, absent, or a value of another type
StringContent(s) == [kind |-> "string", str |-> s, blocks |-> <<>>, num |-> 0]
BlockContent(bs) == [kind |-> "blocks", str |-> Plain(<<>>), blocks |-> bs, num |-> 0]
AbsentContent == [kind |-> "absent", str |-> Plain(<<>>), blocks |-> <<>>, num |-> 0]
NumberContent(n) == [kind |-> "number", str |-> Plain(<<>>), blocks |-> <<>>, num |-> n]
\* an array holding null in place of a block object
NullArrayContent == [kind |-> "null_array", str |-> Plain(<<>>), blocks |-> <<>>, num |-> 0]

\* CompactionMessage
Message(role, content) ==
    [role |-> role, content |-> content, toolCalls |-> FALSE,
     toolName |-> None, name |-> None, tool_call_id |-> None]

RECURSIVE JoinTexts(_)
\* .filter(Boolean).join(" ") over the texts of the blocks
JoinTexts(texts) ==
    IF Len(texts) = 0 THEN <<>>
    ELSE IF Len(texts) = 1 THEN texts[1]
    ELSE texts[1] \o <<" ">> \o JoinTexts(Tail(texts))

\* block.text || ""
BlockText(b) == IF Truthy(b.text) THEN b.text[1] ELSE <<>>

\* block.text is read from every element of an array content: a null element
\* makes extractContent throw a TypeError
ContentThrows(m) == m.content.kind = "null_array"

\* extractContent with a content that is neither string nor array turned into text
extractContent_NumberAsText(m) ==
    IF m.content.kind = "string" THEN m.content.str
    ELSE IF m.content.kind = "blocks" THEN
        Plain(JoinTexts(SelectSeq([i \in 1..Len(m.content.blocks) |-> BlockText(m.content.blocks[i])],
                                  LAMBDA t : Len(t) > 0)))
    ELSE IF m.content.kind = "number" THEN Plain(Digits(m.content.num))
    ELSE Plain(<<>>)

extractContent(m) ==
    IF m.content.kind = "string" THEN m.content.str
    ELSE IF m.content.kind = "blocks" THEN
        Plain(JoinTexts(SelectSeq([i \in 1..Len(m.content.blocks) |-> BlockText(m.content.blocks[i])],
                                  LAMBDA t : Len(t) > 0)))
    ELSE Plain(<<>>)

(***************************************************************************)
(* Classification                                                          *)
(***************************************************************************)
EntryType == {"tool_result", "decision", "user_intent", "ephemeral", "context", "unknown"}

decisionMarkers == {
    <<"d", "e", "c", "i", "s", "i", "o", "n">>, <<"d", "e", "c", "i", "d", "e", "d">>, <<"w", "i", "l", "l", " ", "d", "o">>, <<"p", "l", "a", "n">>, <<"a", "p", "p", "r", "o", "a", "c", "h">>, <<"s", "t", "r", "a", "t", "e", "g", "y">>,
    <<"cyr_er", "cyr_ie", "cyr_sha", "cyr_i", "cyr_el">>, <<"cyr_pe", "cyr_el", "cyr_a", "cyr_en">>,
    <<"cyr_be", "cyr_u", "cyr_de", "cyr_u">>, <<"cyr_es", "cyr_de", "cyr_ie", "cyr_el", "cyr_a", "cyr_yu">>,
    <<"cyr_pe", "cyr_o", "cyr_de", "cyr_ha", "cyr_o", "cyr_de">> }

\* msg.role || ""
RoleOf(m) == IF Truthy(m.role) THEN m.role[1] ELSE <<>>

\* the ephemeral test on a user message
UserEphemeral(content) ==
    \/ StrIncludes(content, <<"h", "e", "a", "r", "t", "b", "e", "a", "t">>)
    \/ content = Plain(<<"h", "e", "a", "r", "t", "b", "e", "a", "t", "_", "o", "k">>)
    \/ StrIncludes(content, <<"/", "s", "t", "a", "t", "u", "s">>)
    \/ StrIncludes(content, <<"n", "o", "_", "r", "e", "p", "l", "y">>)

\* the short-acknowledgment test on an assistant message
AssistantEphemeral(content) ==
    StrLen(content) < 50 /\ (StrIncludes(content, <<"n", "o", "_", "r", "e", "p", "l", "y">>) \/ StrIncludes(content, <<"o", "k">>))

HasDecisionMarker(content) == \E marker \in decisionMarkers : StrIncludes(content, marker)

\* msg.toolCalls || msg.tool_calls || content.some(c => c.type === "tool_use")
HasToolCall(m) ==
    \/ m.toolCalls
    \/ /\ m.content.kind = "blocks"
       /\ \E i \in 1..Len(m.content.blocks) : m.content.blocks[i].type = Some(<<"t", "o", "o", "l", "_", "u", "s", "e">>)

\* classifyMessage with the role test reduced to "tool"
classifyMessage_ToolOnly(m) ==
    LET role == RoleOf(m)
        content == StrLower(extractContent(m))
    IN  IF role = <<"t", "o", "o", "l">> THEN "tool_result"
        ELSE IF role = <<"u", "s", "e", "r">> THEN
            IF UserEphemeral(content) THEN "ephemeral" ELSE "user_intent"
        ELSE IF role = <<"a", "s", "s", "i", "s", "t", "a", "n", "t">> THEN
            IF AssistantEphemeral(content) THEN "ephemeral"
            ELSE IF HasDecisionMarker(content) THEN "decision"
            ELSE "context"
        ELSE "unknown"

\* classifyMessage without toLowerCase()
classifyMessage_CaseSensitive(m) ==
    LET role == RoleOf(m)
        content == extractContent(m)
    IN  IF role = <<"t", "o", "o", "l">> \/ role = <<"t", "o", "o", "l", "R", "e", "s", "u", "l", "t">> THEN "tool_result"
        ELSE IF role = <<"u", "s", "e", "r">> THEN
            IF UserEphemeral(content) THEN "ephemeral" ELSE "user_intent"
        ELSE IF role = <<"a", "s", "s", "i", "s", "t", "a", "n", "t">> THEN
            IF AssistantEphemeral(content) THEN "ephemeral"
            ELSE IF HasDecisionMarker(content) THEN "decision"
            ELSE "context"
        ELSE "unknown"

\* classifyMessage with the decision test ahead of the short-acknowledgment test
classifyMessage_DecisionFirst(m) ==
    LET role == RoleOf(m)
        content == StrLower(extractContent(m))
    IN  IF role = <<"t", "o", "o", "l">> \/ role = <<"t", "o", "o", "l", "R", "e", "s", "u", "l", "t">> THEN "tool_result"
        ELSE IF role = <<"u", "s", "e", "r">> THEN
            IF UserEphemeral(content) THEN "ephemeral" ELSE "user_intent"
        ELSE IF role = <<"a", "s", "s", "i", "s", "t", "a", "n", "t">> THEN
            IF HasDecisionMarker(content) THEN "decision"
            ELSE IF AssistantEphemeral(content) THEN "ephemeral"
            ELSE "context"
        ELSE "unknown"

classifyMessage(m) ==
    LET role == RoleOf(m)
        content == StrLower(extractContent(m))
    IN  IF role = <<"t", "o", "o", "l">> \/ role = <<"t", "o", "o", "l", "R", "e", "s", "u", "l", "t">> THEN "tool_result"
        ELSE IF role = <<"u", "s", "e", "r">> THEN
            IF UserEphemeral(content) THEN "ephemeral" ELSE "user_intent"
        ELSE IF role = <<"a", "s", "s", "i", "s", "t", "a", "n", "t">> THEN
            IF AssistantEphemeral(content) THEN "ephemeral"
            ELSE IF HasDecisionMarker(content) THEN "decision"
            ELSE IF HasToolCall(m) THEN "context"
            ELSE "context"
        ELSE "unknown"

(***************************************************************************)
(* Configuration                                                           *)
(***************************************************************************)
\* decay rates, thresholds and floors in hundredths
DEFAULT_CONFIG ==
    [ decayRates |-> [decision |-> 3, user_intent |-> 5, context |-> 12,
                      tool_result |-> 20, ephemeral |-> 35, unknown |-> 15],
      sparseThreshold |-> 25,
      compressThreshold |-> 65,
      retentionFloor |-> [decision |-> 50, user_intent |-> 35],
      maxSparseIndexTokens |-> 2500 ]

\* { ...defaults, ...given } on two objects
Spread(defaults, given) ==
    [k \in DOMAIN defaults \cup DOMAIN given |->
        IF k \in DOMAIN given THEN given[k] ELSE defaults[k]]

\* the value of JSON.parse(raw) when it is an object: the keys the user gave
UserConfig(sparseAt, compressAt, maxTokens, rates, floors) ==
    [ sparseThreshold |-> sparseAt, compressThreshold |-> compressAt,
      maxSparseIndexTokens |-> maxTokens, decayRates |-> rates, retentionFloor |-> floors ]

\* the keys of an object that has them, as an object
Given(userConfig) ==
    LET present == {k \in DOMAIN userConfig : IsSome(userConfig[k])}
    IN  [k \in present |-> userConfig[k][1]]

\* userConfig.decayRates, userConfig.retentionFloor: undefined spreads as {}
GivenObject(o) == IF IsSome(o) THEN o[1] ELSE <<>>

\* what hippocampus.config.json is: absent, unreadable, not JSON, the JSON
\* null, a JSON number or a JSON object
ConfigFile(kind, value) == [kind |-> kind, value |-> value]
NoUserConfig == UserConfig(None, None, None, None, None)

\* readFileSync, JSON.parse or userConfig.decayRates throws
LoadThrows(file) == file.kind \in {"unreadable", "invalid", "null"}

\* the user's object spread over the defaults, nested objects replaced whole
loadConfig_Shallow(file) ==
    IF file.kind = "absent" \/ LoadThrows(file) THEN DEFAULT_CONFIG
    ELSE Spread(DEFAULT_CONFIG, Given(file.value))

loadConfig(file) ==
    IF file.kind = "absent" THEN DEFAULT_CONFIG
    ELSE IF LoadThrows(file) THEN DEFAULT_CONFIG
    ELSE LET userConfig == file.value
             merged == Spread(DEFAULT_CONFIG, Given(userConfig))
         IN  [merged EXCEPT
                !.decayRates = Spread(DEFAULT_CONFIG.decayRates, GivenObject(userConfig.decayRates)),
                !.retentionFloor = Spread(DEFAULT_CONFIG.retentionFloor,
                                          GivenObject(userConfig.retentionFloor))]

(***************************************************************************)
(* Importance scoring                                                      *)
(***************************************************************************)
getBaseImportance(type) ==
    CASE type = "decision" -> 90
      [] type = "user_intent" -> 80
      [] type = "context" -> 50
      [] type = "tool_result" -> 30
      [] type = "ephemeral" -> 10
      [] type = "unknown" -> 40

RECURSIVE DigitCount(_)
\* number of characters of the decimal rendering of n >= 0
DigitCount(n) == IF n < 10 THEN 1 ELSE 1 + DigitCount(n \div 10)

\* length of JSON.stringify(value) for an optional string field with key length k:
\* "key":"value"
JsonFieldLen(k, o) == IF IsSome(o) THEN k + Len(o[1]) + 5 ELSE 0

JsonFieldCount(b) ==
    Cardinality({f \in {"type", "text", "name", "tool_use_id"} : IsSome(b[f])})

\* length of JSON.stringify(block); field values hold no character that JSON escapes
JsonBlockLen(b) ==
    2 + JsonFieldLen(4, b.type) + JsonFieldLen(4, b.text) + JsonFieldLen(4, b.name)
      + JsonFieldLen(11, b.tool_use_id) + Max(0, JsonFieldCount(b) - 1)

RECURSIVE SumSeq(_)
SumSeq(ns) == IF Len(ns) = 0 THEN 0 ELSE ns[1] + SumSeq(Tail(ns))

\* length of JSON.stringify(msg.content || ""), which estimateTokens uses when
\* the extracted text is empty
JsonFallbackLen(m) ==
    IF m.content.kind = "blocks" THEN
        2 + SumSeq([i \in 1..Len(m.content.blocks) |-> JsonBlockLen(m.content.blocks[i])])
          + Max(0, Len(m.content.blocks) - 1)
    ELSE IF m.content.kind = "number" /\ m.content.num # 0 THEN DigitCount(m.content.num)
    ELSE 2

\* estimateTokens without the JSON fallback
estimateTokens_NoFallback(m) == CeilDiv(StrLen(extractContent(m)), 4)

estimateTokens(m) ==
    LET content == extractContent(m)
        textLen == IF StrLen(content) > 0 THEN StrLen(content) ELSE JsonFallbackLen(m)
    IN  CeilDiv(textLen, 4)

\* extractPreview(msg, maxLen), a plain character sequence
extractPreview(m, maxLen) ==
    LET content == extractContent(m)
    IN  IF StrLen(content) <= maxLen THEN StrSlice(content, StrLen(content))
        ELSE StrSlice(content, maxLen) \o <<"ELLIPSIS">>

(***************************************************************************)
(* Decay                                                                   *)
(***************************************************************************)
\* Math.exp in fixed point: ExpNeg(h) is e^(-h/100) in units of 1/SCALE.
\* E01 is e^(-0.01) in those units, to the nearest unit.  The table is built
\* by doubling, t[n+i] = t[n]*t[i] rounded down, so it is non-increasing in h
\* and reaches 0 before it ends.
SCALE == 40000
E01 == 39602
ExpTableLog == 11

RECURSIVE ExpDoubling(_)
ExpDoubling(k) ==
    IF k = 0 THEN <<E01>>
    ELSE LET t == ExpDoubling(k - 1)
             n == Len(t)
         IN  t \o [i \in 1..n |-> (t[n] * t[i]) \div SCALE]

ExpTable == ExpDoubling(ExpTableLog)

ExpNeg(h) ==
    IF h = 0 THEN SCALE
    ELSE IF h > Len(ExpTable) THEN 0
    ELSE ExpTable[h]

\* one unit of retention is 1/(100*SCALE); Hundredths(x) is x/100 in those units
Hundredths(x) == x * SCALE

\* config.retentionFloor[type] ?? 0
FloorOf(type, cfg) ==
    IF type \in DOMAIN cfg.retentionFloor THEN cfg.retentionFloor[type] ELSE 0

\* the value of an arithmetic expression with an undefined operand; it is
\* neither less than, equal to, nor greater than any number
NaN == -2

\* config.decayRates[type] is a number
HasRate(type, cfg) == type \in DOMAIN cfg.decayRates

\* calculateRetention without the floor
calculateRetention_NoFloor(importance, age, type, cfg) ==
    IF ~HasRate(type, cfg) THEN NaN
    ELSE importance * ExpNeg(cfg.decayRates[type] * age)

\* calculateRetention returning the decayed share in place of the retained one
calculateRetention_Complement(importance, age, type, cfg) ==
    IF ~HasRate(type, cfg) THEN NaN
    ELSE Max(Hundredths(FloorOf(type, cfg)),
             importance * (SCALE - ExpNeg(cfg.decayRates[type] * age)))

\* with lambda undefined, -lambda * age, Math.exp of it, the product and
\* Math.max(floor, raw) are all NaN
calculateRetention(importance, age, type, cfg) ==
    IF ~HasRate(type, cfg) THEN NaN
    ELSE LET lambda == cfg.decayRates[type]
             floor == FloorOf(type, cfg)
             raw == importance * ExpNeg(lambda * age)
         IN  Max(Hundredths(floor), raw)

(***************************************************************************)
(* Message scoring                                                         *)
(***************************************************************************)
\* the recency bonus given to the last 6 entries
RecencyBonus_LastSix(importance, age) ==
    IF age <= 5 THEN Min(100, importance + 15) ELSE importance

\* recency bonus: the last 5 entries get +0.15
RecencyBonus(importance, age) ==
    IF age < 5 THEN Min(100, importance + 15) ELSE importance

\* the size penalty applied from 10,000 and 30,000 tokens on
SizePenalty_Inclusive(importance, tokenEstimate) ==
    LET first == IF tokenEstimate >= 10000 THEN Max(10, importance - 15) ELSE importance
    IN  IF tokenEstimate >= 30000 THEN Max(10, first - 10) ELSE first

\* size penalty: -0.15 above 10,000 tokens, a further -0.10 above 30,000
SizePenalty(importance, tokenEstimate) ==
    LET first == IF tokenEstimate > 10000 THEN Max(10, importance - 15) ELSE importance
    IN  IF tokenEstimate > 30000 THEN Max(10, first - 10) ELSE first

\* the reference scan run over every other message, earlier ones included
IsReferenced_AnyOther(msgs, p) ==
    LET preview == extractPreview(msgs[p], 50)
        prefix == SubSeq(preview, 1, Min(30, Len(preview)))
    IN  \E q \in (1..Len(msgs)) \ {p} : StrIncludes(extractContent(msgs[q]), prefix)

\* messages.slice(i + 1).some(later => extractContent(later).includes(preview.slice(0, 30)))
\* for the message at position p (1-based)
IsReferenced(msgs, p) ==
    LET preview == extractPreview(msgs[p], 50)
        prefix == SubSeq(preview, 1, Min(30, Len(preview)))
    IN  \E q \in (p + 1)..Len(msgs) : StrIncludes(extractContent(msgs[q]), prefix)

\* the reference bonus added without the cap at 1.0
ReferenceBonus_Uncapped(importance, isReferenced) ==
    IF isReferenced THEN importance + 20 ELSE importance

\* reference bonus: +0.20, capped at 1.0
ReferenceBonus(importance, isReferenced) ==
    IF isReferenced THEN Min(100, importance + 20) ELSE importance

\* msg.role || "unknown"
EntryRole(m) == IF Truthy(m.role) THEN m.role[1] ELSE <<"u", "n", "k", "n", "o", "w", "n">>

\* the iteration with the size penalties applied before the recency bonus
ScoreEntry_PenaltyFirst(msgs, p, cfg) ==
    LET m == msgs[p]
        type == classifyMessage(m)
        age == Len(msgs) - p
        tokenEstimate == estimateTokens(m)
        importance ==
            ReferenceBonus(
                RecencyBonus(SizePenalty(getBaseImportance(type), tokenEstimate), age),
                IsReferenced(msgs, p))
    IN  [ index |-> p - 1,
          type |-> type,
          importance |-> importance,
          retention |-> calculateRetention(importance, age, type, cfg),
          tokenEstimate |-> tokenEstimate,
          summary |-> <<>>,
          role |-> EntryRole(m),
          contentPreview |-> extractPreview(m, 120) ]

\* one iteration of the loop of scoreMessages, for the message at position p
\* (1-based; the entry's index field is the 0-based i of the code)
ScoreEntry(msgs, p, cfg) ==
    LET m == msgs[p]
        type == classifyMessage(m)
        age == Len(msgs) - p
        tokenEstimate == estimateTokens(m)
        importance ==
            ReferenceBonus(
                SizePenalty(RecencyBonus(getBaseImportance(type), age), tokenEstimate),
                IsReferenced(msgs, p))
    IN  [ index |-> p - 1,
          type |-> type,
          importance |-> importance,
          retention |-> calculateRetention(importance, age, type, cfg),
          tokenEstimate |-> tokenEstimate,
          summary |-> <<>>,
          role |-> EntryRole(m),
          contentPreview |-> extractPreview(m, 120) ]

scoreMessages(msgs, cfg) ==
    [p \in 1..Len(msgs) |-> ScoreEntry(msgs, p, cfg)]

(***************************************************************************)
(* Sparse index lines                                                      *)
(***************************************************************************)
RECURSIVE FirstToolBlockName(_)
\* the loop over msg.content of extractToolName
FirstToolBlockName(blocks) ==
    IF Len(blocks) = 0 THEN <<"u", "n", "k", "n", "o", "w", "n", "_", "t", "o", "o", "l">>
    ELSE LET block == blocks[1]
         IN  IF block.type = Some(<<"t", "o", "o", "l", "_", "u", "s", "e">>) /\ Truthy(block.name) THEN block.name[1]
             ELSE IF block.type = Some(<<"t", "o", "o", "l", "_", "r", "e", "s", "u", "l", "t">>) /\ Truthy(block.tool_use_id)
                  THEN block.tool_use_id[1]
             ELSE FirstToolBlockName(Tail(blocks))

\* extractToolName reading msg.name ahead of msg.toolName
extractToolName_NameFirst(m) ==
    IF Truthy(m.name) THEN m.name[1]
    ELSE IF Truthy(m.toolName) THEN m.toolName[1]
    ELSE IF Truthy(m.tool_call_id) THEN m.tool_call_id[1]
    ELSE IF m.content.kind = "blocks" THEN FirstToolBlockName(m.content.blocks)
    ELSE <<"u", "n", "k", "n", "o", "w", "n", "_", "t", "o", "o", "l">>

extractToolName(m) ==
    IF Truthy(m.toolName) THEN m.toolName[1]
    ELSE IF Truthy(m.name) THEN m.name[1]
    ELSE IF Truthy(m.tool_call_id) THEN m.tool_call_id[1]
    ELSE IF m.content.kind = "blocks" THEN FirstToolBlockName(m.content.blocks)
    ELSE <<"u", "n", "k", "n", "o", "w", "n", "_", "t", "o", "o", "l">>

\* preview.slice(0, n) on a plain character sequence
Slice(chars, n) == SubSeq(chars, 1, Min(n, Len(chars)))

buildSparseIndexLine(entry, m) ==
    LET preview == entry.contentPreview
    IN  CASE entry.type = "tool_result" ->
                <<"[", "T", "O", "O", "L", ":">> \o extractToolName(m) \o <<"]", " ">> \o Digits(entry.tokenEstimate)
                    \o <<"t", "o", "k", " ", "ARROW", " ", "\"">> \o Slice(preview, 80) \o <<"\"">>
          [] entry.type = "user_intent" -> <<"[", "U", "S", "E", "R", "]", " ", "\"">> \o Slice(preview, 100) \o <<"\"">>
          [] entry.type = "decision" -> <<"[", "D", "E", "C", "I", "S", "I", "O", "N", "]", " ", "\"">> \o Slice(preview, 100) \o <<"\"">>
          [] entry.type = "ephemeral" -> <<"[", "E", "P", "H", "E", "M", "E", "R", "A", "L", "]", " ">> \o Slice(preview, 40)
          [] OTHER ->
                <<"[">> \o [i \in 1..Len(entry.role) |-> UpperChar(entry.role[i])] \o <<"]", " ">>
                    \o Slice(preview, 80)

(***************************************************************************)
(* Summary builder                                                         *)
(***************************************************************************)
NoTokens == [sparse |-> 0, compressed |-> 0, kept |-> 0]

\* a < b and a >= b on a retention a that may be NaN
Less(a, b) == a # NaN /\ a < b
AtLeast(a, b) == a # NaN /\ a >= b

\* the branches taken with <= in place of <
TierOf_Inclusive(entry, cfg) ==
    IF entry.retention # NaN /\ entry.retention <= Hundredths(cfg.sparseThreshold) THEN "sparse"
    ELSE IF entry.retention # NaN /\ entry.retention <= Hundredths(cfg.compressThreshold)
         THEN "compressed"
    ELSE "kept"

\* the branch of the loop of buildHippocampusSummary an entry takes
TierOf(entry, cfg) ==
    IF Less(entry.retention, Hundredths(cfg.sparseThreshold)) THEN "sparse"
    ELSE IF Less(entry.retention, Hundredths(cfg.compressThreshold)) THEN "compressed"
    ELSE "kept"

\* Math.ceil(line.length / 4)
LineTokens(line) == CeilDiv(Len(line), 4)

\* the admission test that refuses a line filling the budget exactly
Admits_Strict(sparseTokens, lineTokens, cfg) == sparseTokens + lineTokens < cfg.maxSparseIndexTokens

\* the admission test without the candidate's own tokens
Admits_TotalOnly(sparseTokens, lineTokens, cfg) == sparseTokens <= cfg.maxSparseIndexTokens

\* the admission test of a sparse candidate
Admits(sparseTokens, lineTokens, cfg) == sparseTokens + lineTokens <= cfg.maxSparseIndexTokens

\* retention.toFixed(2)
ToFixed2(retention) ==
    LET n == (retention + SCALE \div 2) \div SCALE
    IN  IF retention = NaN THEN <<"N", "a", "N">>
        ELSE Digits(n \div 100) \o <<".">> \o Digits((n \div 10) % 10) \o Digits(n % 10)

TypeName(type) ==
    CASE type = "tool_result" -> <<"t", "o", "o", "l", "_", "r", "e", "s", "u", "l", "t">>
      [] type = "decision" -> <<"d", "e", "c", "i", "s", "i", "o", "n">>
      [] type = "user_intent" -> <<"u", "s", "e", "r", "_", "i", "n", "t", "e", "n", "t">>
      [] type = "ephemeral" -> <<"e", "p", "h", "e", "m", "e", "r", "a", "l">>
      [] type = "context" -> <<"c", "o", "n", "t", "e", "x", "t">>
      [] type = "unknown" -> <<"u", "n", "k", "n", "o", "w", "n">>

CompressedLine(entry, line) == <<"BULLET", " ", "(", "r", "=">> \o ToFixed2(entry.retention) \o <<")", " ">> \o line

KeptBlock(entry, m) ==
    <<"#", "#", "#", " ", "[">> \o TypeName(entry.type) \o <<"]", " ", "(", "r", "=">> \o ToFixed2(entry.retention) \o <<")", "\n">>
        \o extractPreview(m, 500)

\* goalLine without the replacement of newlines
GoalLine_NoFlatten(entry) == Slice(entry.contentPreview, 150)

\* goalLine of a user_intent entry: contentPreview.slice(0, 150).replace(/\n/g, " ")
GoalLine(entry) ==
    LET cut == Slice(entry.contentPreview, 150)
    IN  [i \in 1..Len(cut) |-> IF cut[i] = "\n" THEN " " ELSE cut[i]]

\* the goals list
Goals(entries, cfg) ==
    LET isGoal(e) == /\ e.type = "user_intent"
                     /\ AtLeast(e.retention, Hundredths(cfg.sparseThreshold))
                     /\ Len(GoalLine(e)) > 10
        chosen == SelectSeq(entries, isGoal)
    IN  [i \in 1..Len(chosen) |-> <<"-", " ">> \o GoalLine(chosen[i])]

\* one element of parts: what it is, the lines it carries, the numbers it carries
Part(kind, lines, nums) == [kind |-> kind, lines |-> lines, nums |-> nums]
BlankPart == Part("", <<>>, <<>>)
TitlePart == Part("# hippocampus.md Compaction", <<>>, <<>>)
\* <!-- decay_lambda=... sparse_threshold=... compress_threshold=... -->
DecayPart(cfg) ==
    Part("decay", <<>>,
         <<cfg.decayRates.decision, cfg.decayRates.user_intent, cfg.decayRates.context,
           cfg.decayRates.tool_result, cfg.decayRates.ephemeral, cfg.decayRates.unknown,
           cfg.sparseThreshold, cfg.compressThreshold>>)
\* the counts comment with every sparse candidate counted as sparse
CountsPart_CandidatesAsSparse(entries, nSparse, nCompressed, nKept, nDropped) ==
    Part("counts", <<>>, <<entries, nSparse + nDropped, nCompressed, nKept, nDropped>>)
\* <!-- entries: .. | sparse: .. | compressed: .. | kept: .. | dropped: .. -->
CountsPart(entries, nSparse, nCompressed, nKept, nDropped) ==
    Part("counts", <<>>, <<entries, nSparse, nCompressed, nKept, nDropped>>)
HeadingPart(heading) == Part(heading, <<>>, <<>>)
BodyPart(lines) == Part("body", lines, <<>>)
\* \n<!-- N additional entries dropped (sparse index full) -->
DroppedPart(n) == Part("dropped", <<>>, <<n>>)

Infinity == -1
\* the ratio with the infinity sign chosen when nothing was rendered
Ratio_NothingRendered(before, after) ==
    IF after > 0 THEN (20 * before + after) \div (2 * after) ELSE Infinity
\* (totalOriginalTokens / Math.max(totalNewTokens, 1)).toFixed(1) in tenths, or the infinity sign
Ratio(before, after) ==
    IF before > 0 THEN (20 * before + Max(after, 1)) \div (2 * Max(after, 1)) ELSE Infinity
\* the stats comment with the rendered total clamped as in the ratio
StatsPart_ClampedAfter(before, after) ==
    Part("stats", <<>>, <<before, Max(after, 1), Ratio(before, after)>>)
\* <!-- hippocampus stats: {before}tok -> {after}tok ({ratio}x compression) -->
StatsPart(before, after) == Part("stats", <<>>, <<before, after, Ratio(before, after)>>)

GoalSection(goals) ==
    IF Len(goals) > 0 THEN <<HeadingPart("## Goal"), BodyPart(goals), BlankPart>> ELSE <<>>

\* the prior-context section pushed whenever a previous summary was passed
PriorSection_WhenPassed(previous) ==
    IF IsSome(previous)
    THEN <<HeadingPart("## Prior Context"), BodyPart(<<previous[1]>>), BlankPart>>
    ELSE <<>>

PriorSection(previous) ==
    IF Truthy(previous)
    THEN <<HeadingPart("## Prior Context"), BodyPart(<<previous[1]>>), BlankPart>>
    ELSE <<>>

ActiveSection(keptBlocks) ==
    IF Len(keptBlocks) > 0
    THEN <<HeadingPart("## Active Context (high retention)"), BodyPart(keptBlocks), BlankPart>>
    ELSE <<>>

CompressedSection(lines) ==
    IF Len(lines) > 0
    THEN <<HeadingPart("## Compressed (mid retention - re-fetch if needed)"), BodyPart(lines), BlankPart>>
    ELSE <<>>

\* the sparse section as rendered without the dropped-entries comment
SparseSection_NoComment(lines, dropped) ==
    IF Len(lines) > 0
    THEN <<HeadingPart("## Sparse Index (decayed - pointers only)"), BodyPart(lines), BlankPart>>
    ELSE <<>>

SparseSection(lines, dropped) ==
    IF Len(lines) > 0
    THEN <<HeadingPart("## Sparse Index (decayed - pointers only)"), BodyPart(lines)>>
         \o (IF dropped > 0 THEN <<DroppedPart(dropped)>> ELSE <<>>)
         \o <<BlankPart>>
    ELSE <<>>

\* the parts pushed after the loop of buildHippocampusSummary
Assembled(entries, cfg, previous, sparseLines, compressedLines, keptBlocks, toks, dropped) ==
    <<TitlePart, DecayPart(cfg),
      CountsPart(Len(entries), Len(sparseLines), Len(compressedLines), Len(keptBlocks), dropped),
      BlankPart>>
    \o GoalSection(Goals(entries, cfg))
    \o PriorSection(previous)
    \o ActiveSection(keptBlocks)
    \o CompressedSection(compressedLines)
    \o SparseSection(sparseLines, dropped)
    \o <<StatsPart(SumSeq([i \in 1..Len(entries) |-> entries[i].tokenEstimate]),
                   toks.sparse + toks.compressed + toks.kept)>>

(***************************************************************************)
(* Values of the variables an operation does not use                       *)
(***************************************************************************)
NoMessage == Message(None, AbsentContent)
NoProbe == [importance |-> 0, age |-> 0, type |-> "unknown"]

IdleClassify == msg = NoMessage /\ ctypes = <<>>
IdleDecay == probe = NoProbe /\ retained = NotYet
IdleScore == messages = <<>> /\ scored = <<>>
IdleBuild ==
    /\ previousSummary = None
    /\ cursor = 0
    /\ sparse = <<>>
    /\ compressed = <<>>
    /\ kept = <<>>
    /\ tokens = NoTokens
    /\ droppedCount = 0
    /\ digest = <<>>

NoFile == ConfigFile("absent", NoUserConfig)
NoPreparation == [tokensBefore |-> 0, firstKeptEntryId |-> <<>>]
NoStats == [total |-> 0, sparse |-> 0, compressed |-> 0, kept |-> 0, totalTokens |-> 0]
Pending == <<"pending">>

IdleLoad == configFile = NoFile
IdleHook ==
    /\ preparation = NoPreparation
    /\ stats = NoStats
    /\ notified = <<>>
    /\ result = Pending
    /\ calls = 0
IdleTier == recommended = NotYet

(***************************************************************************)
(* classifyMessage applied to single messages                              *)
(***************************************************************************)
MaxCalls == 2

ClassifyRoles == {
    None, Some(<<>>), Some(<<"t", "o", "o", "l">>), Some(<<"t", "o", "o", "l", "R", "e", "s", "u", "l", "t">>), Some(<<"u", "s", "e", "r">>),
    Some(<<"a", "s", "s", "i", "s", "t", "a", "n", "t">>), Some(<<"s", "y", "s", "t", "e", "m">>), Some(<<"U", "S", "E", "R">>), Some(<<"T", "o", "o", "l">>) }

ClassifyContents == {
    AbsentContent,
    NumberContent(42),
    StringContent(Plain(<<>>)),
    StringContent(Plain(<<"h", "e", "a", "r", "t", "b", "e", "a", "t">>)),
    StringContent(Plain(<<"H", "E", "A", "R", "T", "B", "E", "A", "T", "_", "O", "K">>)),
    StringContent(Plain(<<"/", "s", "t", "a", "t", "u", "s", " ", "c", "h", "e", "c", "k">>)),
    StringContent(Plain(<<"S", "t", "a", "t", "u", "s", "?">>)),
    StringContent(Plain(<<"N", "O", "_", "R", "E", "P", "L", "Y">>)),
    StringContent(Plain(<<"P", "l", "e", "a", "s", "e", " ", "h", "e", "l", "p", " ", "m", "e">>)),
    StringContent(Plain(<<"o", "k">>)),
    StringContent(Plain(<<"L", "o", "o", "k", "s", " ", "f", "i", "n", "e">>)),
    StringContent(Plain(<<"o", "k", ",", " ", "t", "h", "e", " ", "p", "l", "a", "n", " ", "i", "s", " ", "s", "e", "t">>)),
    StringContent(Plain(<<"M", "y", " ", "p", "l", "a", "n", " ", "f", "o", "r", " ", "t", "h", "i", "s", " ", "t", "a", "s", "k">>)),
    StringContent(Plain(<<"W", "e", " ", "D", "E", "C", "I", "D", "E", "D", " ", "t", "o", " ", "s", "t", "o", "p">>)),
    StringContent(Plain(<<"CYR_PE", "cyr_el", "cyr_a", "cyr_en">>)),
    StringContent(Plain(<<"T", "h", "e", " ", "u", "s", "e", "r", " ", "a", "s", "k", "e", "d", " ", "a", " ", "q", "u", "e", "s", "t", "i", "o", "n">>)),
    StringContent(Str(<<"o", "k">>, 47)),
    StringContent(Str(<<"o", "k">>, 48)),
    StringContent(Str(<<"t", "h", "e", " ", "a", "p", "p", "r", "o", "a", "c", "h", " ", "l", "o", "o", "k", "s", " ", "o", "k">>, 40)),
    StringContent(Str(<<"h", "e", "a", "r", "t", "b", "e", "a", "t">>, 60)),
    BlockContent(<<TextBlock(<<"h", "e", "a", "r", "t">>), TextBlock(<<"b", "e", "a", "t">>)>>),
    BlockContent(<<TextBlock(<<"H", "E", "A", "R", "T", "B", "E", "A", "T">>), OtherBlock>>),
    BlockContent(<<ToolUseBlock(<<"s", "e", "a", "r", "c", "h">>)>>),
    BlockContent(<<TextBlock(<<"t", "h", "e", " ", "s", "t", "r", "a", "t", "e", "g", "y">>), ToolUseBlock(<<"s", "e", "a", "r", "c", "h">>)>>),
    BlockContent(<<TextBlock(<<"w", "i", "l", "l">>), TextBlock(<<"d", "o">>)>>),
    BlockContent(<<>>) }

ClassifyInputs ==
    { Message(r, c) : r \in ClassifyRoles, c \in ClassifyContents }
    \cup { [Message(Some(<<"a", "s", "s", "i", "s", "t", "a", "n", "t">>), c) EXCEPT !.toolCalls = TRUE] : c \in ClassifyContents }

InitClassify ==
    /\ pc = "classify"
    /\ msg \in ClassifyInputs
    /\ ctypes = <<>>
    /\ IdleDecay
    /\ IdleScore
    /\ IdleBuild
    /\ config = DEFAULT_CONFIG
    /\ IdleLoad
    /\ IdleHook
    /\ IdleTier

\* one call classifyMessage(msg)
Classify ==
    /\ pc = "classify"
    /\ Len(ctypes) < MaxCalls
    /\ ctypes' = Append(ctypes, classifyMessage(msg))
    /\ UNCHANGED <<loadVars, hookVars, tierVars>>
    /\ UNCHANGED <<pc, msg, decayVars, config, scoreVars, buildVars>>

NextClassify == Classify

SpecClassify == InitClassify /\ [][NextClassify]_vars

(***************************************************************************)
(* calculateRetention applied to single entries, scoreMessages applied to  *)
(* message lists                                                           *)
(***************************************************************************)
MaxAge == 60
MaxFiller == 50
MaxMsgs == 6

\* a configuration with a floor for every type and other rates and thresholds
FLOOR_CONFIG ==
    [ decayRates |-> [decision |-> 10, user_intent |-> 1, context |-> 12,
                      tool_result |-> 20, ephemeral |-> 35, unknown |-> 15],
      sparseThreshold |-> 30,
      compressThreshold |-> 50,
      retentionFloor |-> [decision |-> 100, user_intent |-> 5, context |-> 30,
                          tool_result |-> 50, ephemeral |-> 0, unknown |-> 65],
      maxSparseIndexTokens |-> 20 ]

\* a configuration object with no decay rate for the type unknown
PARTIAL_CONFIG ==
    [DEFAULT_CONFIG EXCEPT !.decayRates =
        [decision |-> 3, user_intent |-> 5, context |-> 12, tool_result |-> 20, ephemeral |-> 35]]

DecayConfigs == {DEFAULT_CONFIG, FLOOR_CONFIG, PARTIAL_CONFIG}
ScoreConfigs == {DEFAULT_CONFIG, FLOOR_CONFIG}

DecayProbes ==
    { [importance |-> n, age |-> a, type |-> t] :
        n \in 0..100, a \in 0..MaxAge, t \in EntryType }

\* sample messages
UserMessage0 == Message(Some(<<"u", "s", "e", "r">>), StringContent(Plain(<<"M", "e", "s", "s", "a", "g", "e", " ", "0">>)))
UserMessage1 == Message(Some(<<"u", "s", "e", "r">>), StringContent(Plain(<<"M", "e", "s", "s", "a", "g", "e", " ", "1">>)))
UserQuestion == Message(Some(<<"u", "s", "e", "r">>), StringContent(Plain(<<"H", "o", "w", " ", "i", "s", " ", "t", "h", "e", " ", "p", "r", "o", "j", "e", "c", "t", " ", "g", "o", "i", "n", "g", "?">>)))
DecisionMessage ==
    Message(Some(<<"a", "s", "s", "i", "s", "t", "a", "n", "t">>),
            StringContent(Plain(<<"I", " ", "h", "a", "v", "e", " ", "d", "e", "c", "i", "d", "e", "d", " ", "t", "o", " ", "u", "s", "e", " ", "T", "y", "p", "e", "S", "c", "r", "i", "p", "t", " ", "f", "o", "r", " ", "t", "h", "i", "s", " ", "p", "r", "o", "j", "e", "c", "t", " ", "b", "e", "c", "a", "u", "s", "e", " ", "o", "f", " ", "i", "t", "s", " ", "t", "y", "p", "e", " ", "s", "a", "f", "e", "t", "y", " ", "b", "e", "n", "e", "f", "i", "t", "s">>)))
ToolMessage == Message(Some(<<"t", "o", "o", "l">>), StringContent(Plain(<<"T", "o", "o", "l", " ", "e", "x", "e", "c", "u", "t", "i", "o", "n">>)))
\* a tool output of n characters
ToolOutput(n) == Message(Some(<<"t", "o", "o", "l">>), StringContent(Str(<<"o", "u", "t", ":">>, n - 4)))
\* a heartbeat of n characters
Heartbeat(n) == Message(Some(<<"u", "s", "e", "r">>), StringContent(Str(<<"h", "e", "a", "r", "t", "b", "e", "a", "t">>, n - 9)))
ReferringMessage ==
    Message(Some(<<"a", "s", "s", "i", "s", "t", "a", "n", "t">>), StringContent(Plain(<<"I", " ", "s", "e", "e", " ", "M", "e", "s", "s", "a", "g", "e", " ", "0", " ", "a", "n", "d", " ", "T", "o", "o", "l", " ", "e", "x", "e", "c", "u", "t", "i", "o", "n", " ", "a", "b", "o", "v", "e">>)))
ToolUseOnly == Message(Some(<<"a", "s", "s", "i", "s", "t", "a", "n", "t">>), BlockContent(<<ToolUseBlock(<<"s", "e", "a", "r", "c", "h">>)>>))
\* a decision of more than 40,000 characters that begins as DecisionMessage does
LargeDecision ==
    Message(Some(<<"a", "s", "s", "i", "s", "t", "a", "n", "t">>),
            StringContent(Str(<<"I", " ", "h", "a", "v", "e", " ", "d", "e", "c", "i", "d", "e", "d", " ", "t", "o", " ", "u", "s", "e", " ", "T", "y", "p", "e", "S", "c", "r", "i", "p", "t", " ", "f", "o", "r", " ", "t", "h", "i", "s", " ", "p", "r", "o", "j", "e", "c", "t">>, 40000)))

\* a decision followed by n tool messages and a user message
DecisionScenario(n) == <<DecisionMessage>> \o [i \in 1..n |-> ToolMessage] \o <<UserQuestion>>

RECURSIVE SeqsUpTo(_, _)
\* the sequences over S of length at most n
SeqsUpTo(S, n) ==
    IF n = 0 THEN {<<>>}
    ELSE LET shorter == SeqsUpTo(S, n - 1)
         IN  shorter \cup {Append(q, x) : q \in {r \in shorter : Len(r) = n - 1}, x \in S}

ScorePoolA == {UserMessage0, UserMessage1, ReferringMessage}
ScorePoolB == {ToolMessage, ToolOutput(40000), ToolOutput(40001), ToolOutput(120001)}
ScorePoolC == {ToolUseOnly, Heartbeat(120001), ToolOutput(120000)}
ScorePoolD == {DecisionMessage, Heartbeat(120001)}
ScorePoolE == {LargeDecision, DecisionMessage}

\* lists over each pool, and every list of one message of ClassifyInputs
ScoreInputs ==
    SeqsUpTo(ScorePoolA, MaxMsgs) \cup SeqsUpTo(ScorePoolB, MaxMsgs) \cup SeqsUpTo(ScorePoolC, MaxMsgs)
        \cup SeqsUpTo(ScorePoolD, MaxMsgs) \cup SeqsUpTo(ScorePoolE, MaxMsgs)
        \cup {<<m>> : m \in ClassifyInputs}

InitDecay ==
    /\ \/ /\ pc = "decay"
          /\ probe \in DecayProbes
          /\ messages = <<>>
          /\ config \in DecayConfigs
       \/ /\ pc = "score"
          /\ probe = NoProbe
          /\ messages \in {DecisionScenario(n) : n \in 0..MaxFiller}
          /\ config = DEFAULT_CONFIG
    /\ retained = NotYet
    /\ scored = <<>>
    /\ IdleClassify
    /\ IdleBuild
    /\ IdleLoad
    /\ IdleHook
    /\ IdleTier

InitScore ==
    /\ pc = "score"
    /\ messages \in ScoreInputs
    /\ scored = <<>>
    /\ config \in ScoreConfigs
    /\ IdleClassify
    /\ IdleDecay
    /\ IdleBuild
    /\ IdleLoad
    /\ IdleHook
    /\ IdleTier

\* one call calculateRetention(importance, age, type, config)
Retain ==
    /\ pc = "decay"
    /\ retained' = calculateRetention(probe.importance, probe.age, probe.type, config)
    /\ pc' = "decayed"
    /\ UNCHANGED <<loadVars, hookVars, tierVars>>
    /\ UNCHANGED <<classifyVars, probe, config, scoreVars, buildVars>>

\* one call scoreMessages(messages, config)
Score ==
    /\ pc = "score"
    /\ \A p \in 1..Len(messages) : ~ContentThrows(messages[p])
    /\ scored' = scoreMessages(messages, config)
    /\ pc' = "scored"
    /\ UNCHANGED <<loadVars, hookVars, tierVars>>
    /\ UNCHANGED <<classifyVars, decayVars, config, messages, buildVars>>

NextDecay == Retain \/ Score
NextScore == Score

SpecDecay == InitDecay /\ [][NextDecay]_vars
SpecScore == InitScore /\ [][NextScore]_vars

MaxEntries == 3

\* the helpers of the summary tests
createScoredEntry(index, type, retention, content, tokenEstimate) ==
    [ index |-> index,
      type |-> type,
      importance |-> 50,
      retention |-> retention,
      tokenEstimate |-> tokenEstimate,
      summary |-> <<>>,
      role |-> IF type = "user_intent" THEN <<"u", "s", "e", "r">> ELSE <<"a", "s", "s", "i", "s", "t", "a", "n", "t">>,
      contentPreview |-> content ]

createMessage(role, content) == Message(Some(role), StringContent(Plain(content)))

\* a scored entry and its message, before the entry has an index
Sample(role, type, retention, content, tokenEstimate) ==
    [role |-> role, type |-> type, retention |-> retention, content |-> content,
     tokenEstimate |-> tokenEstimate]

BuildPool == {
    Sample(<<"t", "o", "o", "l">>, "tool_result", Hundredths(10), <<"T", "o", "o", "l", " ", "r", "e", "s", "u", "l", "t">>, 20),
    Sample(<<"u", "s", "e", "r">>, "ephemeral", Hundredths(25) - 1, <<"H", "E", "A", "R", "T", "B", "E", "A", "T", "_", "O", "K">>, 3),
    Sample(<<"u", "s", "e", "r">>, "user_intent", Hundredths(10), <<"h", "i">>, 1),
    Sample(<<"a", "s", "s", "i", "s", "t", "a", "n", "t">>, "context", Hundredths(25), <<"M", "e", "d", "i", "u", "m", " ", "r", "e", "t", "e", "n", "t", "i", "o", "n", " ", "e", "n", "t", "r", "y">>, 50),
    Sample(<<"u", "s", "e", "r">>, "user_intent", Hundredths(65) - 1, <<"B", "u", "i", "l", "d", " ", "a", " ", "R", "e", "a", "c", "t", " ", "a", "p", "p">>, 50),
    Sample(<<"a", "s", "s", "i", "s", "t", "a", "n", "t">>, "decision", Hundredths(65), <<"I", " ", "w", "i", "l", "l", " ", "u", "s", "e", " ", "V", "i", "t", "e">>, 50),
    Sample(<<"a", "s", "s", "i", "s", "t", "a", "n", "t">>, "context", Hundredths(90), <<"H", "i", "g", "h", " ", "r", "e", "t", "e", "n", "t", "i", "o", "n", " ", "e", "n", "t", "r", "y">>, 1000) }

\* user messages whose previews are 10 characters, 11 characters with a
\* newline, and 160 characters
GoalPool == {
    Sample(<<"u", "s", "e", "r">>, "user_intent", Hundredths(80), <<"S", "h", "i", "p", " ", "i", "t", " ", "u", "p">>, 3),
    Sample(<<"u", "s", "e", "r">>, "user_intent", Hundredths(80), <<"F", "i", "x", " ", "t", "h", "e", "\n", "b", "u", "g">>, 3),
    Sample(<<"u", "s", "e", "r">>, "user_intent", Hundredths(25), <<"R", "e", "f", "a", "c", "t", "o", "r", " ", "t", "h", "e", " ", "p", "a", "r", "s", "e", "r", " ">> \o [i \in 1..140 |-> "x"], 40),
    Sample(<<"u", "s", "e", "r">>, "user_intent", Hundredths(25) - 1, <<"T", "h", "i", "s", " ", "g", "o", "a", "l", " ", "s", "h", "o", "u", "l", "d", " ", "n", "o", "t", " ", "a", "p", "p", "e", "a", "r">>, 7) }

BuildInputs == SeqsUpTo(BuildPool, MaxEntries) \cup SeqsUpTo(GoalPool, MaxEntries)

BuildConfigs == {
    DEFAULT_CONFIG,
    [DEFAULT_CONFIG EXCEPT !.maxSparseIndexTokens = 12],
    [DEFAULT_CONFIG EXCEPT !.maxSparseIndexTokens = 2],
    [DEFAULT_CONFIG EXCEPT !.sparseThreshold = 11, !.compressThreshold = 89,
                           !.maxSparseIndexTokens = 50] }

PreviousSummaries == {None, Some(<<>>), Some(<<"P", "r", "e", "v", "i", "o", "u", "s", " ", "s", "e", "s", "s", "i", "o", "n", " ", "s", "u", "m", "m", "a", "r", "y", " ", "c", "o", "n", "t", "e", "n", "t">>)}

InitBuild ==
    /\ pc = "build"
    /\ \E samples \in BuildInputs :
          /\ messages = [i \in 1..Len(samples) |-> createMessage(samples[i].role, samples[i].content)]
          /\ scored = [i \in 1..Len(samples) |->
                          createScoredEntry(i - 1, samples[i].type, samples[i].retention,
                                            samples[i].content, samples[i].tokenEstimate)]
    /\ config \in BuildConfigs
    /\ previousSummary \in PreviousSummaries
    /\ cursor = 0
    /\ sparse = <<>>
    /\ compressed = <<>>
    /\ kept = <<>>
    /\ tokens = NoTokens
    /\ droppedCount = 0
    /\ digest = <<>>
    /\ IdleClassify
    /\ IdleDecay
    /\ IdleLoad
    /\ IdleHook
    /\ IdleTier

\* one iteration of the loop over scored of buildHippocampusSummary
BuildStep ==
    /\ pc = "build"
    /\ cursor < Len(scored)
    /\ LET entry == scored[cursor + 1]
           m == messages[entry.index + 1]
           line == buildSparseIndexLine(entry, m)
           tier == TierOf(entry, config)
       IN  IF tier = "sparse" THEN
                IF Admits(tokens.sparse, LineTokens(line), config)
                THEN /\ sparse' = Append(sparse, line)
                     /\ tokens' = [tokens EXCEPT !.sparse = @ + LineTokens(line)]
                     /\ UNCHANGED <<compressed, kept, droppedCount>>
                ELSE /\ droppedCount' = droppedCount + 1
                     /\ UNCHANGED <<sparse, compressed, kept, tokens>>
           ELSE IF tier = "compressed" THEN
                /\ compressed' = Append(compressed, CompressedLine(entry, line))
                /\ tokens' = [tokens EXCEPT !.compressed = @ + LineTokens(line)]
                /\ UNCHANGED <<sparse, kept, droppedCount>>
           ELSE
                /\ kept' = Append(kept, KeptBlock(entry, m))
                /\ tokens' = [tokens EXCEPT !.kept = @ + entry.tokenEstimate]
                /\ UNCHANGED <<sparse, compressed, droppedCount>>
    /\ cursor' = cursor + 1
    /\ UNCHANGED <<loadVars, hookVars, tierVars>>
    /\ UNCHANGED <<pc, classifyVars, decayVars, config, scoreVars, previousSummary, digest>>

\* the rest of buildHippocampusSummary: goals, parts and the returned text
Assemble ==
    /\ pc = "build"
    /\ cursor = Len(scored)
    /\ digest' = Assembled(scored, config, previousSummary, sparse, compressed, kept, tokens,
                           droppedCount)
    /\ pc' = "done"
    /\ UNCHANGED <<loadVars, hookVars, tierVars>>
    /\ UNCHANGED <<classifyVars, decayVars, config, scoreVars, previousSummary, cursor, sparse,
                   compressed, kept, tokens, droppedCount>>

NextBuild == BuildStep \/ Assemble

SpecBuild == InitBuild /\ [][NextBuild]_vars

(***************************************************************************)
(* scoreMessages followed by buildHippocampusSummary                       *)
(***************************************************************************)
PipelinePool == {
    UserQuestion,
    Message(Some(<<"a", "s", "s", "i", "s", "t", "a", "n", "t">>), BlockContent(<<TextBlock(<<"t", "h", "e", " ", "s", "t", "r", "a", "t", "e", "g", "y">>), ToolUseBlock(<<"s", "e", "a", "r", "c", "h">>)>>)),
    Message(Some(<<"t", "o", "o", "l">>), BlockContent(<<OtherBlock, ToolResultBlock(<<"t", "o", "o", "l", "u", "_", "1">>)>>)),
    Message(Some(<<"u", "s", "e", "r">>), NumberContent(42)),
    Message(None, AbsentContent),
    Message(Some(<<"u", "s", "e", "r">>), NullArrayContent) }

\* a user message and a decision followed by MaxFiller tool messages
AgedScenario(decision) ==
    <<UserQuestion, decision>> \o [i \in 1..MaxFiller |-> ToolMessage]

PipelineInputs ==
    SeqsUpTo(PipelinePool, MaxEntries)
        \cup {AgedScenario(decision) : decision \in {DecisionMessage, LargeDecision}}

PipelineConfigs == {
    DEFAULT_CONFIG,
    [DEFAULT_CONFIG EXCEPT !.maxSparseIndexTokens = 12],
    [DEFAULT_CONFIG EXCEPT !.sparseThreshold = 40, !.maxSparseIndexTokens = 12] }

InitPipeline ==
    /\ pc = "idle"
    /\ messages = <<>>
    /\ scored = <<>>
    /\ config \in PipelineConfigs
    /\ previousSummary = None
    /\ cursor = 0
    /\ sparse = <<>>
    /\ compressed = <<>>
    /\ kept = <<>>
    /\ tokens = NoTokens
    /\ droppedCount = 0
    /\ digest = <<>>
    /\ IdleClassify
    /\ IdleDecay
    /\ IdleLoad
    /\ IdleHook
    /\ IdleTier

\* the caller passes a message list and a previous summary
Invoke ==
    /\ pc = "idle"
    /\ messages' \in PipelineInputs
    /\ previousSummary' \in PreviousSummaries
    /\ pc' = "score"
    /\ UNCHANGED <<loadVars, hookVars, tierVars>>
    /\ UNCHANGED <<classifyVars, decayVars, config, scored, cursor, sparse, compressed, kept,
                   tokens, droppedCount, digest>>

\* scoreMessages leaving by the TypeError of extractContent
ScoreThrows ==
    /\ pc = "score"
    /\ \E p \in 1..Len(messages) : ContentThrows(messages[p])
    /\ pc' = "threw"
    /\ UNCHANGED <<loadVars, hookVars, tierVars>>
    /\ UNCHANGED <<classifyVars, decayVars, config, scoreVars, buildVars>>

\* the call buildHippocampusSummary(scored, allMessages, config, previousSummary)
Summarize ==
    /\ pc = "scored"
    /\ pc' = "build"
    /\ UNCHANGED <<loadVars, hookVars, tierVars>>
    /\ UNCHANGED <<classifyVars, decayVars, config, scoreVars, buildVars>>

NextPipeline == Invoke \/ Score \/ ScoreThrows \/ Summarize \/ BuildStep \/ Assemble

SpecPipeline == InitPipeline /\ [][NextPipeline]_vars

(***************************************************************************)
(* loadConfig applied to workspaces                                        *)
(***************************************************************************)
\* the objects of the loadConfig tests and the keys they give, in every combination
UserConfigs ==
    { UserConfig(sparseAt, compressAt, maxTokens, rates, floors) :
        sparseAt \in {None, Some(30)},
        compressAt \in {None, Some(70)},
        maxTokens \in {None, Some(50)},
        rates \in {None, Some(<<>>), Some([decision |-> 2]),
                   Some([ephemeral |-> 50, unknown |-> 1])},
        floors \in {None, Some([user_intent |-> 40]), Some([context |-> 10])} }

ConfigFiles ==
    { ConfigFile(kind, NoUserConfig) : kind \in {"absent", "unreadable", "invalid", "null", "number"} }
    \cup { ConfigFile("object", userConfig) : userConfig \in UserConfigs }

InitConfig ==
    /\ pc = "load"
    /\ configFile \in ConfigFiles
    /\ config = DEFAULT_CONFIG
    /\ IdleClassify
    /\ IdleDecay
    /\ IdleScore
    /\ IdleBuild
    /\ IdleHook
    /\ IdleTier

\* const config = loadConfig(workspaceDir)
Load ==
    /\ pc = "load"
    /\ config' = loadConfig(configFile)
    /\ pc' = "loaded"
    /\ UNCHANGED <<classifyVars, decayVars, scoreVars, buildVars, loadVars, hookVars, tierVars>>

NextConfig == Load

SpecConfig == InitConfig /\ [][NextConfig]_vars

(***************************************************************************)
(* getRetentionAction of src/index.ts beside the loop of                   *)
(* buildHippocampusSummary, on one entry                                   *)
(***************************************************************************)
\* DEFAULT_RETENTION, in hundredths
DEFAULT_RETENTION == [sparse |-> 25, compress |-> 65]

\* getRetentionAction(score, thresholds), the score in the units of retention
getRetentionAction(score, thresholds) ==
    IF AtLeast(score, Hundredths(thresholds.compress)) THEN "keep"
    ELSE IF AtLeast(score, Hundredths(thresholds.sparse)) THEN "compress"
    ELSE "sparse"

\* every hundredth from 0 to 1, the values next to the default thresholds, and NaN
TierScores ==
    {Hundredths(h) : h \in 0..100}
        \cup {Hundredths(h) + d : h \in {25, 65}, d \in {-1, 1}}
        \cup {NaN}

\* threshold pairs with sparse < compress
TierThresholds == {DEFAULT_RETENTION, [sparse |-> 11, compress |-> 89]}

InitTier ==
    /\ pc = "tier"
    /\ messages = <<createMessage(<<"a", "s", "s", "i", "s", "t", "a", "n", "t">>, <<"E", "n", "t", "r", "y", " ", "1">>)>>
    /\ \E score \in TierScores :
          scored = <<createScoredEntry(0, "context", score, <<"E", "n", "t", "r", "y", " ", "1">>, 50)>>
    /\ \E thresholds \in TierThresholds :
          config = [DEFAULT_CONFIG EXCEPT !.sparseThreshold = thresholds.sparse,
                                          !.compressThreshold = thresholds.compress]
    /\ IdleBuild
    /\ IdleClassify
    /\ IdleDecay
    /\ IdleLoad
    /\ IdleHook
    /\ IdleTier

\* one call getRetentionAction(entry.retention, { sparse, compress }), before
\* buildHippocampusSummary is called with the same thresholds
Recommend ==
    /\ pc = "tier"
    /\ recommended' = getRetentionAction(scored[1].retention,
                                         [sparse |-> config.sparseThreshold,
                                          compress |-> config.compressThreshold])
    /\ pc' = "build"
    /\ UNCHANGED <<classifyVars, decayVars, config, scoreVars, buildVars, loadVars, hookVars>>

NextTier == Recommend \/ BuildStep \/ Assemble

SpecTier == InitTier /\ [][NextTier]_vars

(***************************************************************************)
(* The session_before_compact handler                                      *)
(*                                                                         *)
(* The handler has no await: an invocation runs to its return before the   *)
(* host can start the next one.  The locals of one invocation stay in the  *)
(* variables after it returned, as the values a later invocation must not  *)
(* depend on.  The log file and the compression ratio shown in the         *)
(* notification are left out.                                              *)
(***************************************************************************)
\* the stats object computed from the scored list
Stats(entries, cfg) ==
    LET isSparse(e) == Less(e.retention, Hundredths(cfg.sparseThreshold))
        isCompressed(e) == /\ AtLeast(e.retention, Hundredths(cfg.sparseThreshold))
                           /\ Less(e.retention, Hundredths(cfg.compressThreshold))
        isKept(e) == AtLeast(e.retention, Hundredths(cfg.compressThreshold))
    IN  [ total |-> Len(entries),
          sparse |-> Len(SelectSeq(entries, isSparse)),
          compressed |-> Len(SelectSeq(entries, isCompressed)),
          kept |-> Len(SelectSeq(entries, isKept)),
          totalTokens |-> SumSeq([i \in 1..Len(entries) |-> entries[i].tokenEstimate]) ]

\* ctx.ui.notify(`... ${total} entries -> ${sparse} sparse + ${compressed} compressed + ${kept} kept ...`, "info")
InfoNote(st) == [type |-> "info", nums |-> <<st.total, st.sparse, st.compressed, st.kept>>]
\* ctx.ui.notify(`hippocampus error: ..., falling back to default`, "warning")
WarningNote == [type |-> "warning", nums |-> <<>>]

\* !summary.trim()
IsBlank(parts) == \A i \in 1..Len(parts) : parts[i] = BlankPart

\* the result with tokensBefore taken from the stats comment of the summary
CompactionResult_Recounted(summary, prep) ==
    Some([ summary |-> summary,
           firstKeptEntryId |-> prep.firstKeptEntryId,
           tokensBefore |-> summary[Len(summary)].nums[1] ])

\* { compaction: { summary, firstKeptEntryId, tokensBefore } }
CompactionResult(summary, prep) ==
    Some([ summary |-> summary,
           firstKeptEntryId |-> prep.firstKeptEntryId,
           tokensBefore |-> prep.tokensBefore ])

RECURSIVE Loop(_, _, _, _)
\* the locals of buildHippocampusSummary after its loop handled the first k entries
Loop(entries, msgs, cfg, k) ==
    IF k = 0
    THEN [sparse |-> <<>>, compressed |-> <<>>, kept |-> <<>>, tokens |-> NoTokens, droppedCount |-> 0]
    ELSE LET was == Loop(entries, msgs, cfg, k - 1)
             entry == entries[k]
             m == msgs[entry.index + 1]
             line == buildSparseIndexLine(entry, m)
             tier == TierOf(entry, cfg)
         IN  IF tier = "sparse" THEN
                  IF Admits(was.tokens.sparse, LineTokens(line), cfg)
                  THEN [was EXCEPT !.sparse = Append(@, line),
                                   !.tokens.sparse = @ + LineTokens(line)]
                  ELSE [was EXCEPT !.droppedCount = @ + 1]
             ELSE IF tier = "compressed" THEN
                  [was EXCEPT !.compressed = Append(@, CompressedLine(entry, line)),
                              !.tokens.compressed = @ + LineTokens(line)]
             ELSE [was EXCEPT !.kept = Append(@, KeptBlock(entry, m)),
                              !.tokens.kept = @ + entry.tokenEstimate]

\* the parts of the text buildHippocampusSummary(scored, messages, config, previousSummary) returns
buildHippocampusSummary(entries, msgs, cfg, previous) ==
    LET locals == Loop(entries, msgs, cfg, Len(entries))
    IN  Assembled(entries, cfg, previous, locals.sparse, locals.compressed, locals.kept,
                  locals.tokens, locals.droppedCount)

\* allMessages of the events
HookInputs == {
    <<>>,
    <<UserQuestion>>,
    <<ToolMessage, ToolMessage, ToolMessage, UserQuestion>>,
    <<DecisionMessage, ToolMessage>>,
    <<ToolUseOnly, Message(Some(<<"u", "s", "e", "r">>), NumberContent(42))>>,
    <<UserQuestion, Message(Some(<<"u", "s", "e", "r">>), NullArrayContent)>> }

Preparations == {
    [tokensBefore |-> 0, firstKeptEntryId |-> <<>>],
    [tokensBefore |-> 1200, firstKeptEntryId |-> <<"e", "n", "t", "r", "y", "-", "7">>] }

HookPrevious == {None, Some(<<"P", "r", "e", "v", "i", "o", "u", "s", " ", "s", "e", "s", "s", "i", "o", "n", " ", "s", "u", "m", "m", "a", "r", "y", " ", "c", "o", "n", "t", "e", "n", "t">>)}

InitHook ==
    /\ pc = "idle"
    /\ messages = <<>>
    /\ scored = <<>>
    /\ config \in PipelineConfigs
    /\ IdleBuild
    /\ IdleClassify
    /\ IdleDecay
    /\ IdleLoad
    /\ IdleHook
    /\ IdleTier

\* the host emits session_before_compact: the handler reads the event and
\* returns at once when there is no message, else enters its try block
Compact ==
    /\ pc \in {"idle", "returned"}
    /\ calls < MaxCalls
    /\ calls' = calls + 1
    /\ messages' \in HookInputs
    /\ previousSummary' \in HookPrevious
    /\ preparation' \in Preparations
    /\ notified' = <<>>
    /\ IF Len(messages') = 0
       THEN result' = None /\ pc' = "returned"
       ELSE result' = Pending /\ pc' = "score"
    /\ UNCHANGED <<classifyVars, decayVars, config, scored, cursor, sparse, compressed, kept,
                   tokens, droppedCount, digest, stats, loadVars, tierVars>>

\* the call of buildHippocampusSummary with its arrays and counters shared
\* between invocations
Tally_SharedLocals ==
    /\ pc = "scored"
    /\ stats' = Stats(scored, config)
    /\ cursor' = 0
    /\ pc' = "build"
    /\ UNCHANGED <<classifyVars, decayVars, config, scoreVars, previousSummary, digest, sparse,
                   compressed, kept, tokens, droppedCount,
                   preparation, notified, result, calls, loadVars, tierVars>>

\* the stats object, then the call buildHippocampusSummary(scored, allMessages,
\* config, previousSummary) with its fresh locals
Tally ==
    /\ pc = "scored"
    /\ stats' = Stats(scored, config)
    /\ cursor' = 0
    /\ sparse' = <<>>
    /\ compressed' = <<>>
    /\ kept' = <<>>
    /\ tokens' = NoTokens
    /\ droppedCount' = 0
    /\ pc' = "build"
    /\ UNCHANGED <<classifyVars, decayVars, config, scoreVars, previousSummary, digest,
                   preparation, notified, result, calls, loadVars, tierVars>>

\* the rest of the try block: the fallback on a blank summary, else the
\* notification and the returned compaction
Reply ==
    /\ pc = "done"
    /\ IF IsBlank(digest)
       THEN /\ result' = None
            /\ UNCHANGED notified
       ELSE /\ notified' = Append(notified, InfoNote(stats))
            /\ result' = CompactionResult(digest, preparation)
    /\ pc' = "returned"
    /\ UNCHANGED <<classifyVars, decayVars, config, scoreVars, buildVars, preparation, stats,
                   calls, loadVars, tierVars>>

\* the catch block
Catch ==
    /\ pc = "threw"
    /\ notified' = Append(notified, WarningNote)
    /\ result' = None
    /\ pc' = "returned"
    /\ UNCHANGED <<classifyVars, decayVars, config, scoreVars, buildVars, preparation, stats,
                   calls, loadVars, tierVars>>

NextHook == Compact \/ Score \/ ScoreThrows \/ Tally \/ BuildStep \/ Assemble \/ Reply \/ Catch

SpecHook == InitHook /\ [][NextHook]_vars

(***************************************************************************)
(* buildSparseIndexLine applied to single entries                          *)
(***************************************************************************)
\* a preview of n characters, the i-th being the last digit of i
Numbered(n) == [i \in 1..n |-> Digits(i % 10)[1]]

\* previews around the cut lengths 40, 80 and 100, up to the 121 characters
\* extractPreview returns at most
LinePreviews == {Numbered(n) : n \in {0, 40, 41, 80, 81, 100, 101, 121}}

LineRoles == {<<"u", "s", "e", "r">>, <<"a", "s", "s", "i", "s", "t", "a", "n", "t">>, <<"u", "n", "k", "n", "o", "w", "n">>}

ReadResult == Message(Some(<<"t", "o", "o", "l">>), StringContent(Plain(<<"F", "i", "l", "e", " ", "r", "e", "a", "d", " ", "c", "o", "m", "p", "l", "e", "t", "e", "d">>)))
BlockResult(blocks) == Message(Some(<<"t", "o", "o", "l">>), BlockContent(blocks))

\* messages carrying a tool name in each of the places extractToolName reads
LineMessages == {
    ReadResult,
    [ReadResult EXCEPT !.toolName = Some(<<"r", "e", "a", "d">>)],
    [ReadResult EXCEPT !.name = Some(<<"g", "r", "e", "p">>)],
    [ReadResult EXCEPT !.tool_call_id = Some(<<"c", "a", "l", "l", "_", "1">>)],
    [ReadResult EXCEPT !.toolName = Some(<<"r", "e", "a", "d">>), !.name = Some(<<"g", "r", "e", "p">>),
                       !.tool_call_id = Some(<<"c", "a", "l", "l", "_", "1">>)],
    [ReadResult EXCEPT !.toolName = Some(<<>>), !.name = Some(<<"g", "r", "e", "p">>)],
    [ReadResult EXCEPT !.name = Some(<<"g", "r", "e", "p">>), !.tool_call_id = Some(<<"c", "a", "l", "l", "_", "1">>)],
    BlockResult(<<>>),
    BlockResult(<<TextBlock(<<"d", "o", "n", "e">>), OtherBlock>>),
    BlockResult(<<ToolUseBlock(<<"s", "e", "a", "r", "c", "h">>)>>),
    BlockResult(<<ToolResultBlock(<<"t", "o", "o", "l", "u", "_", "1">>)>>),
    BlockResult(<<TextBlock(<<"d", "o", "n", "e">>), ToolUseBlock(<<"s", "e", "a", "r", "c", "h">>), ToolResultBlock(<<"t", "o", "o", "l", "u", "_", "1">>)>>),
    BlockResult(<<ToolResultBlock(<<"t", "o", "o", "l", "u", "_", "1">>), ToolUseBlock(<<"s", "e", "a", "r", "c", "h">>)>>),
    BlockResult(<<ToolUseBlock(<<>>), ToolResultBlock(<<"t", "o", "o", "l", "u", "_", "1">>)>>),
    [BlockResult(<<ToolUseBlock(<<"s", "e", "a", "r", "c", "h">>)>>) EXCEPT !.tool_call_id = Some(<<"c", "a", "l", "l", "_", "1">>)] }

InitLine ==
    /\ pc = "line"
    /\ messages \in {<<m>> : m \in LineMessages}
    /\ \E type \in EntryType, role \in LineRoles, preview \in LinePreviews :
          scored = <<[ index |-> 0,
                       type |-> type,
                       importance |-> getBaseImportance(type),
                       retention |-> Hundredths(10),
                       tokenEstimate |-> estimateTokens(messages[1]),
                       summary |-> <<>>,
                       role |-> role,
                       contentPreview |-> preview ]>>
    /\ config = DEFAULT_CONFIG
    /\ previousSummary = None
    /\ cursor = 0
    /\ sparse = <<>>
    /\ compressed = <<>>
    /\ kept = <<>>
    /\ tokens = NoTokens
    /\ droppedCount = 0
    /\ digest = <<>>
    /\ IdleClassify
    /\ IdleDecay
    /\ IdleLoad
    /\ IdleHook
    /\ IdleTier

\* one call buildSparseIndexLine(entry, msg); the line is put in sparse
BuildLine ==
    /\ pc = "line"
    /\ sparse' = <<buildSparseIndexLine(scored[1], messages[scored[1].index + 1])>>
    /\ pc' = "lined"
    /\ UNCHANGED <<loadVars, hookVars, tierVars>>
    /\ UNCHANGED <<classifyVars, decayVars, config, scoreVars, previousSummary, cursor,
                   compressed, kept, tokens, droppedCount, digest>>

NextLine == BuildLine

SpecLine == InitLine /\ [][NextLine]_vars

\* the text classifyMessage inspects: the extracted text, lower-cased
LowerText(m) == StrLower(extractContent(m))

HasRole(m, r) == IsSome(m.role) /\ m.role[1] = r

C6_UserRule ==
    \A i \in 1..Len(ctypes) :
        HasRole(msg, <<"u", "s", "e", "r">>) =>
            ctypes[i] = IF \E marker \in {<<"h", "e", "a", "r", "t", "b", "e", "a", "t">>, <<"/", "s", "t", "a", "t", "u", "s">>, <<"n", "o", "_", "r", "e", "p", "l", "y">>} :
                               StrIncludes(LowerText(msg), marker)
                        THEN "ephemeral" ELSE "user_intent"

C6_Witness ==
    /\ HasRole(msg, <<"u", "s", "e", "r">>)
    /\ msg.content = StringContent(Plain(<<"H", "E", "A", "R", "T", "B", "E", "A", "T", "_", "O", "K">>))
    /\ Len(ctypes) >= 1
    /\ ctypes[1] = "ephemeral"

\* C7: a message of role "assistant" is ephemeral when its text is shorter
\* than 50 characters and contains "no_reply" or "ok", also when it contains
\* a decision marker; otherwise decision when it contains a decision marker;
\* otherwise context, with or without a tool-invocation block.
C7_AssistantRule ==
    \A i \in 1..Len(ctypes) :
        HasRole(msg, <<"a", "s", "s", "i", "s", "t", "a", "n", "t">>) =>
            LET text == LowerText(msg)
                short == /\ StrLen(extractContent(msg)) < 50
                         /\ \E a \in {<<"n", "o", "_", "r", "e", "p", "l", "y">>, <<"o", "k">>} : StrIncludes(text, a)
                marked == \E marker \in decisionMarkers : StrIncludes(text, marker)
            IN  ctypes[i] = IF short THEN "ephemeral"
                            ELSE IF marked THEN "decision"
                            ELSE "context"

C7_Witness ==
    /\ HasRole(msg, <<"a", "s", "s", "i", "s", "t", "a", "n", "t">>)
    /\ msg.content = StringContent(Plain(<<"o", "k", ",", " ", "t", "h", "e", " ", "p", "l", "a", "n", " ", "i", "s", " ", "s", "e", "t">>))
    /\ Len(ctypes) >= 1
    /\ ctypes[1] = "ephemeral"

\* what the claims about scoreMessages read from one scored entry
EntryAge(p) == Len(messages) - 1 - scored[p].index
EntryBase(p) == getBaseImportance(scored[p].type)

\* C8: the entry at index i of n has age n-1-i; exactly the entries of age < 5
\* have 0.15 added to their base importance (capped at 1.0) before the size
\* penalty and the reference bonus apply, and retention decays by that age.
C8_RecencyBonus ==
    pc = "scored" =>
        /\ Len(scored) = Len(messages)
        /\ \A p \in 1..Len(scored) :
            LET e == scored[p]
                age == Len(messages) - 1 - (p - 1)
                recent == IF age < 5 THEN Min(100, EntryBase(p) + 15) ELSE EntryBase(p)
            IN  /\ e.index = p - 1
                /\ e.importance =
                       ReferenceBonus(SizePenalty(recent, e.tokenEstimate), IsReferenced(messages, p))
                /\ e.retention = calculateRetention(e.importance, age, e.type, config)

\* an old and a recent user message of the same length, neither referenced
C8_Witness ==
    /\ pc = "scored"
    /\ messages = <<UserMessage0, UserMessage1, UserMessage1, UserMessage1, UserMessage1, UserMessage1>>
    /\ scored[1].importance = 80
    /\ scored[6].importance = 95

\* C9: the size penalty takes 0.15 from the importance when the token estimate
\* is above 10,000 and a further 0.10 when it is above 30,000, never going
\* below 0.1; at most 10,000 tokens mean no penalty.
C9_SizePenalty ==
    pc = "scored" =>
        \A p \in 1..Len(scored) :
            LET e == scored[p]
                recent == RecencyBonus(EntryBase(p), EntryAge(p))
                sized == IF e.tokenEstimate > 30000 THEN Max(10, Max(10, recent - 15) - 10)
                         ELSE IF e.tokenEstimate > 10000 THEN Max(10, recent - 15)
                         ELSE recent
            IN  e.importance = ReferenceBonus(sized, IsReferenced(messages, p))

\* a tool output of exactly 10,000 tokens keeps its importance, one of 30,001
\* tokens loses 0.25, and a heartbeat of 30,001 tokens stops at 0.1
C9_Witness ==
    /\ pc = "scored"
    /\ messages = <<Heartbeat(120001), ToolOutput(120000), ToolUseOnly>>
    /\ scored[1].tokenEstimate = 30001
    /\ scored[1].importance = 10
    /\ scored[2].tokenEstimate = 30000
    /\ scored[2].importance = 30

Handled == SubSeq(scored, 1, cursor)
PointerLine(e) == buildSparseIndexLine(e, messages[e.index + 1])
BelowSparse(e) == e.retention < config.sparseThreshold * SCALE
BelowCompress(e) == e.retention < config.compressThreshold * SCALE
DigestHas(part) == \E i \in 1..Len(digest) : digest[i] = part

\* C2: after every iteration each handled entry is in exactly one tier:
\* retention < sparseThreshold makes it a sparse candidate (admitted or
\* dropped), sparseThreshold <= retention < compressThreshold puts its line in
\* compressed, retention >= compressThreshold puts its block in kept.
C2_TierRule ==
    pc \in {"build", "done"} =>
        LET low == SelectSeq(Handled, BelowSparse)
            mid == SelectSeq(Handled, LAMBDA e : ~BelowSparse(e) /\ BelowCompress(e))
            high == SelectSeq(Handled, LAMBDA e : ~BelowCompress(e))
        IN  /\ Len(sparse) + droppedCount = Len(low)
            /\ \A i \in 1..Len(sparse) : \E j \in 1..Len(low) : sparse[i] = PointerLine(low[j])
            /\ compressed = [i \in 1..Len(mid) |-> CompressedLine(mid[i], PointerLine(mid[i]))]
            /\ kept = [i \in 1..Len(high) |-> KeptBlock(high[i], messages[high[i].index + 1])]
            /\ Len(low) + Len(mid) + Len(high) = cursor

\* one entry exactly at sparseThreshold (compressed), one exactly at
\* compressThreshold (full), one just below sparseThreshold (sparse)
C2_Witness ==
    /\ pc = "done"
    /\ config = DEFAULT_CONFIG
    /\ Len(scored) = 3
    /\ scored[1].retention = 25 * SCALE
    /\ scored[2].retention = 65 * SCALE
    /\ scored[3].retention = 25 * SCALE - 1
    /\ Len(compressed) = 1
    /\ Len(kept) = 1
    /\ Len(sparse) = 1

\* C3: at every step of the admission loop and at its end the sparse token
\* total, the sum of ceil(length / 4) over the admitted pointer lines, is at
\* most maxSparseIndexTokens, and each sparse candidate that was not admitted
\* has added exactly one to the dropped count.
C3_SparseBudget ==
    pc \in {"build", "done"} =>
        /\ tokens.sparse <= config.maxSparseIndexTokens
        /\ tokens.sparse = SumSeq([i \in 1..Len(sparse) |-> CeilDiv(Len(sparse[i]), 4)])
        /\ droppedCount = Len(SelectSeq(Handled, BelowSparse)) - Len(sparse)

\* two lines fill the budget exactly and a third candidate is dropped
C3_Witness ==
    /\ pc = "done"
    /\ Len(sparse) = 2
    /\ droppedCount = 1
    /\ tokens.sparse = config.maxSparseIndexTokens

\* C4 as claimed: whenever the dropped count N is positive, the digest holds
\* the comment "N additional entries dropped (sparse index full)".
C4_DroppedCommentAlways ==
    (pc = "done" /\ droppedCount > 0) => DigestHas(DroppedPart(droppedCount))

\* C4 as amended: the digest holds the dropped-entries comment, with N the
\* dropped count, exactly when N > 0 and at least one pointer line was
\* admitted; when every candidate was dropped there is no sparse section and
\* no such comment, and N is reported by the counts comment alone.
C4_DroppedCommentInSparseSection ==
    pc = "done" =>
        /\ DigestHas(DroppedPart(droppedCount)) <=> (droppedCount > 0 /\ Len(sparse) > 0)
        /\ \A i \in 1..Len(digest) :
               digest[i].kind = "dropped" => digest[i] = DroppedPart(droppedCount)
        /\ digest[3] = CountsPart(Len(scored), Len(sparse), Len(compressed), Len(kept), droppedCount)

C4_Witness ==
    /\ pc = "done"
    /\ droppedCount = 2
    /\ Len(sparse) = 1
    /\ DigestHas(DroppedPart(2))

\* C11: under a configuration whose decay rates are all positive and whose
\* floors lie in [0, 1], every entry scoreMessages returns has
\* 0 <= importance <= 1 and 0 <= retention <= 1.
C11_ScoreRange ==
    (/\ pc = "scored"
     /\ \A t \in EntryType : config.decayRates[t] > 0
     /\ \A t \in DOMAIN config.retentionFloor : config.retentionFloor[t] \in 0..100)
    => \A p \in 1..Len(scored) :
           /\ 0 <= scored[p].importance /\ scored[p].importance <= 100
           /\ 0 <= scored[p].retention /\ scored[p].retention <= Hundredths(100)

\* a huge heartbeat held at 0.1 by the penalties, and a recent decision quoted
\* by a later message, whose two bonuses stop at 1.0 and whose floor is 1.0
C11_Witness ==
    /\ pc = "scored"
    /\ config = FLOOR_CONFIG
    /\ messages = <<Heartbeat(120001), DecisionMessage, DecisionMessage>>
    /\ scored[1].importance = 10
    /\ scored[2].importance = 100
    /\ scored[2].retention = Hundredths(100)

\* C12: for a type whose decay rate is positive, calculateRetention at age
\* a + 1 is at most calculateRetention at age a, for the same importance and
\* type; and among types without a floor (whose retention is the unfloored
\* importance * e^(-lambda * age)), a type with a larger or equal decay rate
\* has no larger retention at the same importance and age.
C12_MonotoneInAge ==
    (/\ pc = "decayed"
     /\ HasRate(probe.type, config)
     /\ config.decayRates[probe.type] > 0)
    => /\ calculateRetention(probe.importance, probe.age + 1, probe.type, config) <= retained
       /\ \A t \in EntryType :
              (/\ HasRate(t, config)
               /\ config.decayRates[t] >= config.decayRates[probe.type]
               /\ FloorOf(t, config) = 0
               /\ FloorOf(probe.type, config) = 0)
              => calculateRetention(probe.importance, probe.age, t, config) <= retained

\* a context entry of importance 0.8 at age 10: below its importance, above
\* its retention one step later and above the retention of a tool result
C12_Witness ==
    /\ pc = "decayed"
    /\ config = DEFAULT_CONFIG
    /\ probe = [importance |-> 80, age |-> 10, type |-> "context"]
    /\ retained < Hundredths(80)
    /\ calculateRetention(80, 11, "context", config) < retained
    /\ calculateRetention(80, 10, "tool_result", config) < retained

\* C13 as claimed: when the configuration has no decay rate for the type,
\* calculateRetention decays by some default positive rate and returns a
\* number in [0, 1]; when it has no floor for the type, the result is
\* importance * e^(-lambda * age).
C13_LookupFallbacks ==
    pc = "decayed" =>
        /\ retained # NaN /\ 0 <= retained /\ retained <= Hundredths(100)
        /\ ~HasRate(probe.type, config) =>
               \E lambda \in 1..100 :
                   retained = Max(Hundredths(FloorOf(probe.type, config)),
                                  probe.importance * ExpNeg(lambda * probe.age))
        /\ (HasRate(probe.type, config) /\ probe.type \notin DOMAIN config.retentionFloor) =>
               retained = probe.importance * ExpNeg(config.decayRates[probe.type] * probe.age)

\* what the claims read from the digest: the lines under a heading
SectionLines(heading) ==
    IF \E i \in 1..Len(digest) : digest[i] = HeadingPart(heading)
    THEN digest[(CHOOSE i \in 1..Len(digest) : digest[i] = HeadingPart(heading)) + 1].lines
    ELSE <<>>

\* a preview cut to 150 characters with newlines replaced by spaces, as a bullet
GoalBullet(e) ==
    LET n == IF Len(e.contentPreview) < 150 THEN Len(e.contentPreview) ELSE 150
    IN  <<"-", " ">> \o [i \in 1..n |-> IF e.contentPreview[i] = "\n" THEN " "
                                        ELSE e.contentPreview[i]]

IntentAboveSparse(e) ==
    e.type = "user_intent" /\ e.retention >= config.sparseThreshold * SCALE

\* C14 as claimed: the bullets of the Goal section are, in order, one
\* "- <preview>" per user_intent entry whose retention is >= sparseThreshold.
C14_EveryIntentIsGoal ==
    pc = "done" =>
        LET eligible == SelectSeq(scored, IntentAboveSparse)
        IN  SectionLines("## Goal") = [i \in 1..Len(eligible) |-> GoalBullet(eligible[i])]

\* C14 as amended: the bullets of the Goal section are, in order, one
\* "- <preview>" (cut to 150 characters, newlines replaced by spaces) per
\* user_intent entry whose retention is >= sparseThreshold and whose cut
\* preview is longer than 10 characters; no other entry contributes.
C14_LongIntentIsGoal ==
    pc = "done" =>
        LET eligible == SelectSeq(scored, LAMBDA e : IntentAboveSparse(e) /\ Len(GoalBullet(e)) > 12)
        IN  SectionLines("## Goal") = [i \in 1..Len(eligible) |-> GoalBullet(eligible[i])]

\* a 10-character goal is left out, an 11-character one with a newline is
\* flattened, and a 160-character one exactly at the threshold is cut
C14_Witness ==
    /\ pc = "done"
    /\ config = DEFAULT_CONFIG
    /\ Len(scored) = 3
    /\ scored[1].contentPreview = <<"S", "h", "i", "p", " ", "i", "t", " ", "u", "p">>
    /\ scored[2].contentPreview = <<"F", "i", "x", " ", "t", "h", "e", "\n", "b", "u", "g">>
    /\ Len(scored[3].contentPreview) = 160
    /\ Len(SectionLines("## Goal")) = 2
    /\ SectionLines("## Goal")[1] = <<"-", " ", "F", "i", "x", " ", "t", "h", "e", " ", "b", "u", "g">>
    /\ Len(SectionLines("## Goal")[2]) = 152

\* the kinds of the parts of the digest other than blank lines, section
\* bodies and the dropped-entries comment
DigestOutline ==
    SelectSeq([i \in 1..Len(digest) |-> digest[i].kind],
              LAMBDA k : k \notin {"", "body", "dropped"})

TierHeadings == {
    "## Active Context (high retention)",
    "## Compressed (mid retention - re-fetch if needed)",
    "## Sparse Index (decayed - pointers only)" }

\* C15: the digest is the title, the decay comment, the counts comment, then
\* the sections Goal, Prior Context, Active Context, Compressed and Sparse
\* Index in this order, then the stats comment; the four fixed parts are in
\* every digest, Goal / Active Context / Compressed / Sparse Index are there
\* exactly when they have a line, and Prior Context, holding the previous
\* summary unchanged, exactly when a non-empty previous summary was passed.
C15_RenderingOrder ==
    pc = "done" =>
        LET hasGoal == \E p \in 1..Len(scored) :
                           IntentAboveSparse(scored[p]) /\ Len(GoalBullet(scored[p])) > 12
            hasPrior == previousSummary # None /\ previousSummary[1] # <<>>
            when(b, heading) == IF b THEN <<heading>> ELSE <<>>
        IN  /\ DigestOutline =
                   <<"# hippocampus.md Compaction", "decay", "counts">>
                   \o when(hasGoal, "## Goal")
                   \o when(hasPrior, "## Prior Context")
                   \o when(Len(kept) > 0, "## Active Context (high retention)")
                   \o when(Len(compressed) > 0, "## Compressed (mid retention - re-fetch if needed)")
                   \o when(Len(sparse) > 0, "## Sparse Index (decayed - pointers only)")
                   \o <<"stats">>
            /\ digest[1].kind = "# hippocampus.md Compaction"
            /\ digest[Len(digest)].kind = "stats"
            /\ \A i \in 1..Len(digest) :
                   digest[i].kind \in TierHeadings \cup {"## Goal", "## Prior Context"}
                       => digest[i + 1].kind = "body" /\ Len(digest[i + 1].lines) > 0
            /\ SectionLines("## Prior Context") =
                   IF hasPrior THEN <<previousSummary[1]>> ELSE <<>>
            /\ SectionLines("## Active Context (high retention)") = kept
            /\ SectionLines("## Compressed (mid retention - re-fetch if needed)") = compressed
            /\ SectionLines("## Sparse Index (decayed - pointers only)") = sparse

\* a goal, a previous summary and one entry in each tier: all five sections
C15_Witness ==
    /\ pc = "done"
    /\ previousSummary = Some(<<"P", "r", "e", "v", "i", "o", "u", "s", " ", "s", "e", "s", "s", "i", "o", "n", " ", "s", "u", "m", "m", "a", "r", "y", " ", "c", "o", "n", "t", "e", "n", "t">>)
    /\ Len(kept) = 1 /\ Len(compressed) = 1 /\ Len(sparse) = 1
    /\ Len(DigestOutline) = 9
    /\ DigestOutline[4] = "## Goal"
    /\ DigestOutline[8] = "## Sparse Index (decayed - pointers only)"

\* C16: called with an empty scored list and an empty message list,
\* buildHippocampusSummary returns a digest with the title line, the counts
\* comment with entries, sparse, compressed, kept and dropped all 0, no tier
\* section, and a stats comment reading 0tok -> 0tok.
C16_EmptyInput ==
    (pc = "done" /\ scored = <<>> /\ messages = <<>>) =>
        /\ digest[1] = TitlePart
        /\ DigestHas(CountsPart(0, 0, 0, 0, 0))
        /\ \A i \in 1..Len(digest) : digest[i].kind \notin TierHeadings
        /\ \E i \in 1..Len(digest) :
               digest[i].kind = "stats" /\ digest[i].nums[1] = 0 /\ digest[i].nums[2] = 0

\* the digest of the empty input: title, two comments, a blank line, stats
C16_Witness ==
    /\ pc = "done"
    /\ scored = <<>>
    /\ messages = <<>>
    /\ previousSummary = None
    /\ Len(digest) = 5
    /\ digest[5].kind = "stats"

\* what the stats comment shows: before, after, ratio in tenths (or Infinity)
StatsShown == digest[Len(digest)].nums
TokensBefore == SumSeq([i \in 1..Len(scored) |-> scored[i].tokenEstimate])
TokensAfter == tokens.sparse + tokens.compressed + tokens.kept

\* C17 as claimed: before is the sum of tokenEstimate over all scored
\* entries, after is sparse + compressed + kept tokens, and the ratio is the
\* infinity sign whenever after is zero.
C17_InfinityWhenNothingRendered ==
    pc = "done" =>
        /\ StatsShown[1] = TokensBefore
        /\ StatsShown[2] = TokensAfter
        /\ TokensAfter = 0 => StatsShown[3] = Infinity

\* C17 as amended: before and after as claimed; the ratio is the infinity
\* sign exactly when before is zero, and otherwise before / max(after, 1)
\* rounded to one decimal.
C17_InfinityWhenNothingScored ==
    pc = "done" =>
        LET shown == StatsShown[3]
            divisor == IF TokensAfter > 1 THEN TokensAfter ELSE 1
            distance == 10 * TokensBefore - shown * divisor
        IN  /\ StatsShown[1] = TokensBefore
            /\ StatsShown[2] = TokensAfter
            /\ shown = Infinity <=> TokensBefore = 0
            /\ TokensBefore > 0 => (2 * distance < divisor /\ -2 * distance <= divisor)

\* one tool result of 20 tokens dropped for budget: 20tok -> 0tok, ratio 20.0
C17_Witness ==
    /\ pc = "done"
    /\ Len(scored) = 1
    /\ droppedCount = 1
    /\ StatsShown = <<20, 0, 200>>

\* the first n characters of a preview
Cut(preview, n) == SubSeq(preview, 1, IF Len(preview) < n THEN Len(preview) ELSE n)

\* the pointer line of an entry in the format of its type, for a tool name
FormattedLine(e, toolName) ==
    CASE e.type = "tool_result" ->
             <<"[", "T", "O", "O", "L", ":">> \o toolName \o <<"]", " ">> \o Digits(e.tokenEstimate) \o <<"t", "o", "k", " ", "ARROW", " ", "\"">>
                \o Cut(e.contentPreview, 80) \o <<"\"">>
      [] e.type = "user_intent" -> <<"[", "U", "S", "E", "R", "]", " ", "\"">> \o Cut(e.contentPreview, 100) \o <<"\"">>
      [] e.type = "decision" -> <<"[", "D", "E", "C", "I", "S", "I", "O", "N", "]", " ", "\"">> \o Cut(e.contentPreview, 100) \o <<"\"">>
      [] e.type = "ephemeral" -> <<"[", "E", "P", "H", "E", "M", "E", "R", "A", "L", "]", " ">> \o Cut(e.contentPreview, 40)
      [] e.type \in {"context", "unknown"} ->
             <<"[">> \o [i \in 1..Len(e.role) |-> UpperChar(e.role[i])] \o <<"]", " ">>
                \o Cut(e.contentPreview, 80)

\* the blocks of a message that name a tool: tool_use blocks with a name,
\* tool_result blocks with a tool_use_id
NamedUses(m) ==
    IF m.content.kind # "blocks" THEN <<>>
    ELSE SelectSeq(m.content.blocks, LAMBDA b : b.type = Some(<<"t", "o", "o", "l", "_", "u", "s", "e">>) /\ Truthy(b.name))
NamedResults(m) ==
    IF m.content.kind # "blocks" THEN <<>>
    ELSE SelectSeq(m.content.blocks,
                   LAMBDA b : b.type = Some(<<"t", "o", "o", "l", "_", "r", "e", "s", "u", "l", "t">>) /\ Truthy(b.tool_use_id))
NamingBlocks(m) ==
    IF m.content.kind # "blocks" THEN <<>>
    ELSE SelectSeq(m.content.blocks,
                   LAMBDA b : \/ b.type = Some(<<"t", "o", "o", "l", "_", "u", "s", "e">>) /\ Truthy(b.name)
                              \/ b.type = Some(<<"t", "o", "o", "l", "_", "r", "e", "s", "u", "l", "t">>) /\ Truthy(b.tool_use_id))

\* toolName, name, tool_call_id, then what the blocks give, else unknown_tool
ToolNameOr(m, fromBlocks) ==
    IF Truthy(m.toolName) THEN m.toolName[1]
    ELSE IF Truthy(m.name) THEN m.name[1]
    ELSE IF Truthy(m.tool_call_id) THEN m.tool_call_id[1]
    ELSE IF Len(fromBlocks) > 0 THEN fromBlocks[1]
    ELSE <<"u", "n", "k", "n", "o", "w", "n", "_", "t", "o", "o", "l">>

\* C18 as claimed: the line has the format of the entry's type, and the tool
\* name is the first available of toolName, name, tool_call_id, the name of
\* a tool_use block, the tool_use_id of a tool_result block, else
\* unknown_tool.
C18_ToolUseNameBeforeResultId ==
    pc = "lined" =>
        LET m == messages[1]
            uses == NamedUses(m)
            results == NamedResults(m)
            fromBlocks == [i \in 1..Len(uses) |-> uses[i].name[1]]
                          \o [i \in 1..Len(results) |-> results[i].tool_use_id[1]]
        IN  sparse[1] = FormattedLine(scored[1], ToolNameOr(m, fromBlocks))

\* C18 as amended: the same formats, and after toolName, name and
\* tool_call_id the tool name is taken from the first content block, in array
\* order, that is a tool_use block with a name (its name) or a tool_result
\* block with a tool_use_id (its tool_use_id), else unknown_tool.
C18_FirstNamingBlock ==
    pc = "lined" =>
        LET m == messages[1]
            naming == NamingBlocks(m)
            fromBlocks == [i \in 1..Len(naming) |->
                              IF naming[i].type = Some(<<"t", "o", "o", "l", "_", "u", "s", "e">>) THEN naming[i].name[1]
                              ELSE naming[i].tool_use_id[1]]
        IN  sparse[1] = FormattedLine(scored[1], ToolNameOr(m, fromBlocks))

\* a tool result whose message has toolName, name and tool_call_id, with a
\* preview of 81 characters cut to 80
C18_Witness ==
    /\ pc = "lined"
    /\ scored[1].type = "tool_result"
    /\ messages[1].toolName = Some(<<"r", "e", "a", "d">>)
    /\ messages[1].name = Some(<<"g", "r", "e", "p">>)
    /\ Len(scored[1].contentPreview) = 81
    /\ sparse[1] = <<"[", "T", "O", "O", "L", ":", "r", "e", "a", "d", "]", " ", "5", "t", "o", "k", " ", "ARROW", " ", "\"">> \o Numbered(80) \o <<"\"">>

\* the length of the text of a message: a string content as it is, the
\* non-empty texts of the blocks of an array joined by single spaces, and
\* nothing for any other content
TextLength(m) ==
    IF m.content.kind = "string" THEN Len(m.content.str.head) + m.content.str.pad
    ELSE IF m.content.kind = "blocks" THEN
        LET texts == SelectSeq(m.content.blocks, LAMBDA b : b.text # None /\ b.text # Some(<<>>))
        IN  SumSeq([i \in 1..Len(texts) |-> Len(texts[i].text[1])])
            + (IF Len(texts) > 0 THEN Len(texts) - 1 ELSE 0)
    ELSE 0

\* C19: the token estimate of every scored message is ceil(L / 4), where L is
\* the length of the extracted text or, when that text is empty, the length
\* of the JSON serialization of the content; it is an integer >= 1 for every
\* message, with empty-string, empty-array and absent content too.
C19_TokenEstimate ==
    pc = "scored" =>
        \A p \in 1..Len(scored) :
            LET m == messages[p]
                L == IF TextLength(m) > 0 THEN TextLength(m) ELSE JsonFallbackLen(m)
            IN  /\ 4 * scored[p].tokenEstimate >= L
                /\ 4 * (scored[p].tokenEstimate - 1) < L
                /\ scored[p].tokenEstimate >= 1

\* a user message without content is estimated at one token
C19_Witness ==
    /\ pc = "scored"
    /\ messages = <<Message(Some(<<"u", "s", "e", "r">>), AbsentContent)>>
    /\ scored[1].tokenEstimate = 1

\* every content is a string, an array of block objects, a value of another
\* type, or absent
WellFormedInput ==
    \A p \in 1..Len(messages) :
        messages[p].content.kind \in {"string", "blocks", "number", "absent"}

\* C20: on a list of messages whose contents are strings, arrays of block
\* objects, values of another type or absent, scoreMessages followed by
\* buildHippocampusSummary never throws: scoring returns one entry per
\* message, each pointing at its own message, a content that is neither a
\* string nor an array is scored as empty text, the loop of the builder
\* handles each entry once, and what is returned is a digest with title,
\* counts and stats.
C20_PipelineTotal ==
    /\ pc \in {"idle", "score", "scored", "build", "done", "threw"}
    /\ WellFormedInput => pc # "threw"
    /\ pc \in {"scored", "build", "done"} =>
           /\ Len(scored) = Len(messages)
           /\ \A p \in 1..Len(scored) :
                  /\ scored[p].index = p - 1
                  /\ scored[p].type \in EntryType
                  /\ messages[p].content.kind \in {"number", "absent"}
                         => scored[p].contentPreview = <<>>
    /\ pc = "build" => cursor \in 0..Len(scored)
    /\ pc = "done" =>
           /\ cursor = Len(scored)
           /\ digest[1] = TitlePart
           /\ DigestHas(CountsPart(Len(messages), Len(sparse), Len(compressed), Len(kept),
                                   droppedCount))
           /\ Len(sparse) + Len(compressed) + Len(kept) + droppedCount = Len(messages)
           /\ digest[Len(digest)].kind = "stats"

\* a numeric content, an absent content and an array without text: a digest
C20_Witness ==
    /\ pc = "done"
    /\ messages = <<Message(Some(<<"u", "s", "e", "r">>), NumberContent(42)),
                    Message(None, AbsentContent),
                    Message(Some(<<"t", "o", "o", "l">>), BlockContent(<<OtherBlock, ToolResultBlock(<<"t", "o", "o", "l", "u", "_", "1">>)>>))>>
    /\ scored[1].contentPreview = <<>>
    /\ scored[1].type = "user_intent"
    /\ Len(digest) >= 5

\* whether scoreMessages throws on the list
Throws(msgs) == \E p \in 1..Len(msgs) : ContentThrows(msgs[p])

\* what one invocation returns when nothing ran before it
RunAlone(msgs, cfg, previous, prep) ==
    IF Len(msgs) = 0 \/ Throws(msgs) THEN None
    ELSE CompactionResult(buildHippocampusSummary(scoreMessages(msgs, cfg), msgs, cfg, previous),
                          prep)

\* C21: when scoring or summary building throws inside the handler, the
\* handler's next step is its return, with exactly one notification, of type
\* warning, and no compaction result; a compaction is returned only from a
\* finished summary (title first, stats comment last, every message counted),
\* together with firstKeptEntryId and tokensBefore as the event gave them, and
\* after one info notification; until the return no result exists.
C21_CatchAndFallBack ==
    /\ [][ /\ pc = "threw" =>
                  /\ pc' = "returned"
                  /\ result' = None
                  /\ notified' = <<WarningNote>>
           /\ pc = "done" =>
                  /\ pc' = "returned"
                  /\ result' = Some([ summary |-> digest,
                                      firstKeptEntryId |-> preparation.firstKeptEntryId,
                                      tokensBefore |-> preparation.tokensBefore ])
                  /\ Len(notified') = 1
                  /\ notified'[1].type = "info" ]_vars
    /\ [](pc \in {"idle", "score", "scored", "threw", "build", "done", "returned"})
    /\ [](pc \notin {"idle", "returned"} => result = Pending)
    /\ [](pc = "returned" /\ Throws(messages) => result = None /\ notified = <<WarningNote>>)
    /\ [](pc = "returned" /\ IsSome(result) =>
             /\ result[1].summary[1] = TitlePart
             /\ result[1].summary[3].nums[1] = Len(messages)
             /\ result[1].summary[Len(result[1].summary)].kind = "stats")

C21_Witness ==
    /\ pc = "returned"
    /\ Throws(messages)
    /\ notified = <<WarningNote>>
    /\ result = None
    /\ preparation.tokensBefore = 1200

\* C23: no step writes to the configuration, no step of an invocation writes
\* to the message list, and every invocation of the handler, whatever ran
\* before it, returns what the same event returns when the handler runs alone.
C23_IndependentInvocations ==
    /\ [][config' = config]_vars
    /\ [][pc \notin {"idle", "returned"} => messages' = messages]_vars
    /\ [](pc = "returned" => result = RunAlone(messages, config, previousSummary, preparation))

C23_Witness ==
    /\ pc = "returned"
    /\ calls > 1
    /\ Len(messages) = 4
    /\ IsSome(result)
    /\ result[1].summary = digest
    /\ droppedCount > 0

\* C22: loadConfig returns in every case; it returns DEFAULT_CONFIG when the
\* file is absent, unreadable or not JSON; from a JSON object every top-level
\* key the user gave has the user's value and every other key the default,
\* and decayRates and retentionFloor hold, key by key, the user's value where
\* given and the default elsewhere, so that every type has a decay rate.
C22_LoadConfig ==
    /\ pc \in {"load", "loaded"}
    /\ pc = "loaded" =>
           /\ configFile.kind \in {"absent", "unreadable", "invalid"} => config = DEFAULT_CONFIG
           /\ EntryType \subseteq DOMAIN config.decayRates
           /\ configFile.kind = "object" =>
                  LET user == configFile.value
                      rates == IF IsSome(user.decayRates) THEN user.decayRates[1] ELSE <<>>
                      floors == IF IsSome(user.retentionFloor) THEN user.retentionFloor[1] ELSE <<>>
                  IN  /\ \A k \in {"sparseThreshold", "compressThreshold", "maxSparseIndexTokens"} :
                             config[k] = IF IsSome(user[k]) THEN user[k][1] ELSE DEFAULT_CONFIG[k]
                      /\ DOMAIN config.decayRates = EntryType
                      /\ \A t \in EntryType :
                             config.decayRates[t] =
                                 IF t \in DOMAIN rates THEN rates[t]
                                 ELSE DEFAULT_CONFIG.decayRates[t]
                      /\ DOMAIN config.retentionFloor =
                             DOMAIN DEFAULT_CONFIG.retentionFloor \cup DOMAIN floors
                      /\ \A t \in DOMAIN config.retentionFloor :
                             config.retentionFloor[t] =
                                 IF t \in DOMAIN floors THEN floors[t]
                                 ELSE DEFAULT_CONFIG.retentionFloor[t]

\* the object of the test "should load and merge custom config", with a floor
C22_Witness ==
    /\ pc = "loaded"
    /\ configFile.kind = "object"
    /\ config.sparseThreshold = 30
    /\ config.compressThreshold = 65
    /\ config.decayRates.decision = 2
    /\ config.decayRates.tool_result = 20
    /\ config.retentionFloor = [decision |-> 50, user_intent |-> 35, context |-> 10]

\* the importance after the recency bonus, after the first and the second
\* size penalty, and after the reference bonus, of the entry at position p
AfterRecency(p) ==
    IF EntryAge(p) < 5 THEN Min(100, EntryBase(p) + 15) ELSE EntryBase(p)
AfterFirstPenalty(p) ==
    IF scored[p].tokenEstimate > 10000 THEN Max(10, AfterRecency(p) - 15) ELSE AfterRecency(p)
AfterSecondPenalty(p) ==
    IF scored[p].tokenEstimate > 30000 THEN Max(10, AfterFirstPenalty(p) - 10)
    ELSE AfterFirstPenalty(p)
AfterReference(p) ==
    IF IsReferenced(messages, p) THEN Min(100, AfterSecondPenalty(p) + 20)
    ELSE AfterSecondPenalty(p)

\* C24: every scored entry's importance is its base importance after the
\* recency bonus (capped at 1.0), then the first size penalty, then the second
\* (each floored at 0.1), then the reference bonus (capped at 1.0), in this
\* order, and its retention is the decay of this final importance.
C24_ModifierOrder ==
    pc = "scored" =>
        \A p \in 1..Len(scored) :
            LET final == AfterReference(p)
            IN  /\ scored[p].importance = final
                /\ scored[p].retention =
                       calculateRetention(final, EntryAge(p), scored[p].type, config)

\* a recent, referenced decision of more than 10,000 tokens: 0.90, 1.0, 0.85, 1.0
C24_Witness ==
    /\ pc = "scored"
    /\ Len(scored) = 2
    /\ scored[1].type = "decision"
    /\ scored[1].tokenEstimate > 10000
    /\ IsReferenced(messages, 1)
    /\ EntryBase(1) = 90
    /\ AfterRecency(1) = 100
    /\ AfterFirstPenalty(1) = 85
    /\ AfterSecondPenalty(1) = 85
    /\ scored[1].importance = 100

\* C28: an entry whose message has an empty extracted text is scored without
\* the reference bonus: its importance is the one the size penalties left.
C28_EmptyTextNeverReferenced ==
    pc = "scored" =>
        \A p \in 1..Len(scored) :
            StrLen(extractContent(messages[p])) = 0
                => scored[p].importance = AfterSecondPenalty(p)

\* the handled entries that took the sparse branch, in sequence order
SparseCandidates == SelectSeq(Handled, BelowSparse)

\* C25 as claimed: the admitted pointer lines are the lines of the first
\* sparse candidates, in sequence order, and after a candidate was dropped no
\* later candidate is admitted.
C25_AdmittedArePrefix ==
    /\ [](pc \in {"build", "done"} =>
             /\ Len(sparse) <= Len(SparseCandidates)
             /\ \A i \in 1..Len(sparse) : sparse[i] = PointerLine(SparseCandidates[i]))
    /\ [][droppedCount > 0 => sparse' = sparse]_vars

\* C25, amended: the loop takes the scored entries in sequence order, one a
\* step; a sparse candidate's line is appended after the lines admitted so
\* far exactly when the sparse token total plus the line's tokens is at most
\* maxSparseIndexTokens, and otherwise only the dropped count grows; an entry
\* of another tier changes neither.  (A candidate after a dropped one is
\* admitted when its line still fits.)
C25_AdmittedWhenFits ==
    [][(pc = "build" /\ cursor < Len(scored)) =>
          LET e == scored[cursor + 1]
              line == PointerLine(e)
          IN  /\ cursor' = cursor + 1
              /\ IF BelowSparse(e)
                 THEN IF tokens.sparse + CeilDiv(Len(line), 4) <= config.maxSparseIndexTokens
                      THEN sparse' = Append(sparse, line) /\ droppedCount' = droppedCount
                      ELSE sparse' = sparse /\ droppedCount' = droppedCount + 1
                 ELSE sparse' = sparse /\ droppedCount' = droppedCount]_vars

\* three sparse candidates: the first admitted, the second dropped, the third admitted
C25_Witness ==
    /\ pc = "done"
    /\ Len(scored) = 3
    /\ \A p \in 1..3 : BelowSparse(scored[p])
    /\ droppedCount = 1
    /\ sparse = <<PointerLine(scored[1]), PointerLine(scored[3])>>
    /\ Len(PointerLine(scored[2])) > Len(PointerLine(scored[3]))

\* the numbers of the counts comment of the digest
CountsShown == digest[3].nums

\* C26: after every iteration of the loop each handled entry is in exactly
\* one of the admitted lines, the compressed lines, the kept blocks or the
\* dropped count; and the counts comment of the digest shows entries = the
\* number of scored entries = sparse + compressed + kept + dropped, where
\* sparse is the number of pointer lines in the sparse section.
C26_CounterConservation ==
    /\ pc \in {"build", "done"} =>
           Len(sparse) + Len(compressed) + Len(kept) + droppedCount = cursor
    /\ pc = "done" =>
           /\ digest[3].kind = "counts"
           /\ CountsShown[1] = Len(scored)
           /\ CountsShown[1] = CountsShown[2] + CountsShown[3] + CountsShown[4] + CountsShown[5]
           /\ CountsShown[2] = Len(SectionLines("## Sparse Index (decayed - pointers only)"))
           /\ CountsShown[3] = Len(SectionLines("## Compressed (mid retention - re-fetch if needed)"))
           /\ CountsShown[4] = Len(SectionLines("## Active Context (high retention)"))
           /\ CountsShown[5] = droppedCount

\* one entry of each tier and one dropped candidate
C26_Witness ==
    /\ pc = "done"
    /\ Len(scored) = 3
    /\ CountsShown = <<3, 1, 0, 1, 1>>

\* the decay rates, the floors and the sparse threshold are the default ones
DefaultAnchors ==
    /\ config.decayRates = DEFAULT_CONFIG.decayRates
    /\ config.retentionFloor = DEFAULT_CONFIG.retentionFloor
    /\ config.sparseThreshold = DEFAULT_CONFIG.sparseThreshold
Anchored(e) == e.type \in {"decision", "user_intent"}

C30_NotifiedCountsAgree ==
    (pc = "returned" /\ IsSome(result)) =>
        LET shown == notified[1].nums
            written == result[1].summary[3].nums
        IN  /\ shown[2] = written[2]
            /\ shown[3] = written[3]
            /\ shown[4] = written[4]

====
